---- MODULE Spec2Model ----
(***************************************************************************)
(* Multi-tenant bot server (src/unnamed/part_000, the latest revision of   *)
(* server.mjs): session store (cache over the bot_sessions table), the     *)
(* admission middleware of a tenant instance, the handlers that load and   *)
(* save sessions, tenant start-up, and the subscription webhook.           *)
(*                                                                         *)
(* Every `await` of the source is a point where another event may run, so  *)
(* each handler is cut into one action per awaited operation.  A durable   *)
(* operation (supabase) may fail: supabase-js does not throw, it returns   *)
(* {data: null, error}, and the model draws that outcome nondeterministic- *)
(* ally while the fault budget lasts.                                      *)
(***************************************************************************)
EXTENDS Integers, Sequences, FiniteSets, TLC

\* ------------------------------------------------------------------ bounds
NumUsers == 3
MaxEvents == 2
MaxTicks == 2
MaxFaults == 1
MaxHooks == 2
MaxDays == 1
MaxBots == 3
MaxToggles == 1
MaxMasterEvents == 3

Tenants == {1, 2}
Users == 1..NumUsers
Events == 1..MaxEvents

\* ------------------------------------------------------- program constants
\* Time is in seconds (Date.now() / 1000), so that a date 30 days ahead is
\* within TLC's integers; the source's 5 * 60 * 1000 ms is 5 * 60 s.
CACHE_TTL == 5 * 60
DEFAULT_MAX_USERS == 10
RENEW_DAYS == 30
DaySec == 24 * 60 * 60
\* The clock of the session/gate specification advances in half TTLs.
TickSec == CACHE_TTL \div 2

\* --------------------------------------------------------------- JS values
\* A chat id is a number; a decimal string "n" keeps its digits in d, so that
\* String(7) is not the number 7 under ===.
JsNum(n) == [type |-> "number", d |-> n]
JsStr(n) == [type |-> "string", d |-> n]
JsNull == [type |-> "null", d |-> 0]
String(v) == [type |-> "string", d |-> v.d]

None == <<>>
Some(x) == <<x>>

\* A message text: the literal prefix the handlers test for ("/" of a
\* command, "sk-" of an API key, "" for neither) and what follows it.
Text(pre, rest) == [pre |-> pre, rest |-> rest]
NoText == Text("", "")
CANCEL == Text("/", "cancelar")
ID_CMD == Text("/", "id")
Texts == {CANCEL, ID_CMD, Text("sk-", "1"), Text("", "hello")}
StartsWith(t, prefix) == t.pre = prefix
\* text.trim(): a message text arrives without surrounding whitespace.
Trim(t) == t

\* ---------------------------------------------------------------- sessions
\* The top-level parts of a session blob.  stage = "" stands for a missing
\* (or empty, equally falsy) stage; whatsapp, affiliate and reports say
\* whether the substructure is there; instances is whatsapp.instances.
DefaultSession ==
    [stage |-> "START", whatsapp |-> TRUE, instances |-> <<>>,
     affiliate |-> TRUE, reports |-> TRUE]

StoredShapes ==
    [stage : {"", "READY"}, whatsapp : BOOLEAN, instances : {<<>>, <<"i1">>},
     affiliate : BOOLEAN, reports : BOOLEAN]

\* Rows this program or an earlier revision of it may have written: a row
\* holds an instance list only inside a whatsapp substructure.
LegacyRows == {s \in StoredShapes : ~s.whatsapp => s.instances = <<>>}

CompleteRow ==
    [stage |-> "READY", whatsapp |-> TRUE, instances |-> <<"i1">>,
     affiliate |-> TRUE, reports |-> TRUE]

\* getSession, the "Auto-healing properties" block.
Heal(s) ==
    [s EXCEPT !.whatsapp = TRUE,
              !.instances = IF s.whatsapp THEN s.instances ELSE <<>>,
              !.affiliate = TRUE,
              !.stage = IF s.stage = "" THEN "READY" ELSE s.stage]

\* `${tenantId}_${chatId}`: the tenant id and the chat id, both kept.
CacheKeyChatOnly(tenantId, chatId) == <<1, chatId>>
CacheKey(tenantId, chatId) == <<tenantId, chatId>>
Keys == Tenants \X Users

\* getSession, the cache test: sessionCache.has(key) and age < CACHE_TTL.
CacheFreshLate(cache, key, t) ==
    cache[key] # None /\ t - cache[key][1].timestamp <= CACHE_TTL
CacheFresh(cache, key, t) ==
    cache[key] # None /\ t - cache[key][1].timestamp < CACHE_TTL

\* sessionCache.set(cacheKey, {data, timestamp}).
CacheSetNone(cache, key, obj, t) == cache
CacheSet(cache, key, obj, t) ==
    [cache EXCEPT ![key] = Some([data |-> obj, timestamp |-> t])]

\* ----------------------------------------------------------------- tenants
\* A row of the tenants table; the in-memory tenant object a bot closes over
\* is such a row plus activeUserCount.
TenantRow(id, owner, exp, maxu, active) ==
    [id |-> id, owner_chat_id |-> owner, expiration_date |-> exp,
     max_users |-> maxu, is_active |-> active]

TenantObj(row, n) == [activeUserCount |-> n] @@ row

\* The credential columns of a tenant row that the owner's wizards write.
NoConfig ==
    [openai_api_key |-> None, openai_model |-> None, syncpay_client_id |-> None,
     syncpay_client_secret |-> None, system_prompt |-> None]

\* update(fields) on a row, and assignment of fields to an object.
ApplyFields(row, fields) == fields @@ row

\* tenant.max_users || 10
MaxUsersOf(tenant) ==
    IF tenant.max_users = None \/ tenant.max_users[1] = 0
    THEN DEFAULT_MAX_USERS ELSE tenant.max_users[1]

\* now > expiration, under `if (tenant.expiration_date)`.
PlanExpired(tenant, t) ==
    tenant.expiration_date # None /\ t > tenant.expiration_date[1]

\* String(ctx.chat.id) !== tenant.owner_chat_id, negated.
MwIsOwnerNoString(tenant, chat) == chat = tenant.owner_chat_id
MwIsOwner(tenant, chat) == String(chat) = tenant.owner_chat_id

VARIABLES now, faults, sessionCache, heap, botSessions, tenantsDb,
          bots, activeBots, loaded, events, nev, hooks, masterOps,
          MASTER_ADMIN_ID, masterSessions, systemConfig, masterEvents

vars == <<now, faults, sessionCache, heap, botSessions, tenantsDb,
          bots, activeBots, loaded, events, nev, hooks, masterOps,
          MASTER_ADMIN_ID, masterSessions, systemConfig, masterEvents>>

storeVars == <<sessionCache, heap, botSessions>>
hookVars == <<hooks>>
\* The master bot: the operator's id from the environment, the wizard
\* sessions by chat, the default_price row of system_config, and the updates
\* the master bot was sent.
masterBotVars == <<MASTER_ADMIN_ID, masterSessions, systemConfig, masterEvents>>
masterVars == <<masterOps, masterBotVars>>

\* The master bot has been sent nothing: no wizard session, no price row.
MasterIdle ==
    /\ MASTER_ADMIN_ID = Some(JsStr(1))
    /\ masterSessions = [c \in Users |-> None]
    /\ systemConfig = None
    /\ masterEvents = <<>>

\* A getSession call as the properties see it: when it began (at), the
\* timestamp of the cache entry it found (entry), whether the pair had
\* neither cache entry nor row (fresh), whether another event of the pair
\* was in flight when it began or was delivered before it returned (busy), the branch taken (via), whether a select was
\* executed (didRead), and on return the object (got), its value (val), the
\* cache entry and the row of the pair (cached, row), and how the upsert of
\* a default session ended (wrOk).
NoCall ==
    [site |-> "", at |-> 0, entry |-> None, fresh |-> FALSE, busy |-> FALSE,
     via |-> "", didRead |-> FALSE, got |-> 0, val |-> DefaultSession,
     cached |-> 0, row |-> None, wrOk |-> FALSE]

\* An event not yet delivered.  text and model are the update's payload; upd
\* is the update of the tenants row a wizard step has issued and mem what it
\* assigns to ctx.tenant once its save is back.  stageAt, trans, ai, reply,
\* committed and log are history: the stage of ctx.session when the handlers
\* began, the wizard transitions taken, how far the AI path went, the reply,
\* the fields written to the tenants row, and the lines the event's code
\* wrote with log().
\* The fields after `at` are history, for the
\* properties only: when the update came, whether sessionCache had the key
\* then, whether bot_sessions had the row when checkUserExists ran, whether
\* the event raised the counter, the users the tenant knew at that check.
Pending ==
    [pc |-> "pending", bot |-> 0, chat |-> 0, kind |-> "",
     outcome |-> "none", session |-> 0, local |-> 0, gsObj |-> 0,
     rd |-> [err |-> FALSE, row |-> None], wr |-> DefaultSession,
     at |-> 0, cachedAtGate |-> FALSE, rowAtCheck |-> FALSE,
     counted |-> FALSE, known |-> {}, calls |-> <<>>,
     text |-> NoText, model |-> "", upd |-> None, mem |-> None,
     stageAt |-> "", trans |-> <<>>, ai |-> "none", reply |-> "",
     wa |-> "", committed |-> None, log |-> <<>>]

\* ------------------------------------------------------------------- state
\* Rows the bot_sessions table may hold when the process starts: the owner
\* and user 2 have a complete row or none, the other users none.
InitRowsOf(u) ==
    IF u = 2 THEN {None, Some(CompleteRow)}
    ELSE IF u = 1 THEN {None, Some(CompleteRow)}
    ELSE {None}

InitSessions ==
    {[k \in Keys |-> IF k = <<1, 1>> THEN r1 ELSE IF k = <<1, 2>> THEN r2 ELSE None] :
        r1 \in InitRowsOf(1), r2 \in InitRowsOf(2)}

\* Tenant 1 is active, owned by chat 1, with max_users = 1; tenant 2 is a
\* blocked tenant that loadTenants does not start.
BlockedTenant == [id |-> 2, owner_chat_id |-> JsStr(2), expiration_date |-> None,
                  max_users |-> Some(1), is_active |-> FALSE]

InitTenants ==
    {[t \in Tenants |-> IF t = 1 THEN TenantRow(1, JsStr(1), exp, Some(1), TRUE)
                        ELSE BlockedTenant] : exp \in {None, Some(0)}}

InitCommon ==
    /\ now = 0
    /\ sessionCache = [k \in Keys |-> None]
    /\ heap = <<>>
    /\ bots = <<>>
    /\ activeBots = [t \in Tenants |-> 0]
    /\ loaded = FALSE
    /\ events = [e \in Events |-> Pending]
    /\ nev = 0
    /\ hooks = <<>>
    /\ masterOps = <<>>
    /\ MasterIdle

Init ==
    /\ InitCommon
    /\ faults = 0
    /\ botSessions \in InitSessions
    /\ tenantsDb \in InitTenants

\* A durable operation succeeds, or fails while the fault budget lasts.
Outcomes == IF faults < MaxFaults THEN {TRUE, FALSE} ELSE {TRUE}
Charge(ok) == faults' = IF ok THEN faults ELSE faults + 1

\* ------------------------------------------------------------------- clock
Tick ==
    /\ now < MaxTicks * TickSec
    /\ now' = now + TickSec
    /\ UNCHANGED <<faults, storeVars, tenantsDb, bots, activeBots, loaded,
                   events, nev, hookVars, masterVars>>

\* ------------------------------------------------------------ tenant start
\* getTenantUserCount: the number of bot_sessions rows of the tenant, 0 when
\* the query fails.
GetTenantUserCount(tid, ok) ==
    IF ok THEN Cardinality({k \in Keys : k[1] = tid /\ botSessions[k] # None})
    ELSE 0

RECURSIVE SeqOfSet(_)
SeqOfSet(S) ==
    IF S = {} THEN <<>>
    ELSE LET x == CHOOSE y \in S : \A z \in S : y <= z
         IN <<x>> \o SeqOfSet(S \ {x})

\* An instance a startTenantBot call makes: the tenant object it closes
\* over; starting until the user count is back, then running (launched and
\* registered), stopped once stop() went through.  prev is the instance that
\* was registered for the tenant when the call began (0 for none),
\* prevStopOk whether stop() on it returned without throwing, and startCount
\* the user count the call loaded.
\* startTenantBot up to its first await: an instance registered for the id
\* has stop() called on it, a throw being swallowed; the user count query is
\* issued.  activeUserCount is undefined until the count arrives.
StartNoStop(B, row, stopOk) ==
    Append(B, [obj |-> TenantObj(row, 0), state |-> "starting",
               prev |-> activeBots[row.id], prevStopOk |-> stopOk,
               startCount |-> 0])
StartTenantBot(B, row, stopOk) ==
    LET reg == activeBots[row.id]
        B1 == IF reg # 0 /\ stopOk THEN [B EXCEPT ![reg].state = "stopped"] ELSE B
    IN Append(B1, [obj |-> TenantObj(row, 0), state |-> "starting",
                   prev |-> reg, prevStopOk |-> stopOk, startCount |-> 0])

\* for (const tenant of tenants) startTenantBot(tenant), not awaited; failing
\* is the tenant whose registered instance throws on stop(), 0 for none.
RECURSIVE StartEach(_, _, _)
StartEach(B, act, failing) ==
    IF act = <<>> THEN B
    ELSE StartEach(StartTenantBot(B, tenantsDb[Head(act)], Head(act) # failing),
                   Tail(act), failing)

ActiveTenants == SeqOfSet({t \in DOMAIN tenantsDb : tenantsDb[t].is_active})

\* loadTenants at startup: every tenant flagged active gets startTenantBot
\* called (not awaited); a failed select starts nothing.
LoadTenants ==
    /\ ~loaded
    /\ loaded' = TRUE
    /\ \E ok \in Outcomes :
         /\ Charge(ok)
         /\ bots' = IF ok THEN StartEach(bots, ActiveTenants, 0) ELSE bots
    /\ UNCHANGED <<now, storeVars, tenantsDb, activeBots, events, nev,
                   hookVars, masterVars>>

\* startTenantBot after `await getTenantUserCount`: the counter is set, the
\* middleware and the handlers are installed, the bot is launched and
\* registered in activeBots.
StartTenantBotResume(b) ==
    /\ b \in 1..Len(bots)
    /\ bots[b].state = "starting"
    /\ \E ok \in Outcomes :
         /\ Charge(ok)
         /\ bots' = [bots EXCEPT
                       ![b].obj.activeUserCount = GetTenantUserCount(bots[b].obj.id, ok),
                       ![b].startCount = GetTenantUserCount(bots[b].obj.id, ok),
                       ![b].state = "running"]
    /\ activeBots' = [activeBots EXCEPT ![bots[b].obj.id] = b]
    /\ UNCHANGED <<now, storeVars, tenantsDb, loaded, events, nev,
                   hookVars, masterVars>>

\* ------------------------------------------------------------- getSession
\* m = [ev, cache, heap] is what a handler's synchronous code reads and
\* writes between two awaited operations: the event, sessionCache and the
\* session objects.  Only an awaited durable or gateway operation ends a
\* step; an await of a promise that is already settled does not.
KeyOf(ev) == CacheKey(bots[ev.bot].obj.id, ev.chat)

InFlight(ev) == ev.pc \notin {"pending", "done"}

Cur(ev) == ev.calls[Len(ev.calls)]

SetCur(ev, call) == [ev EXCEPT !.calls[Len(ev.calls)] = call]

\* An event that ends keeps its history only.
Finish(ev, outcome) ==
    [ev EXCEPT !.pc = "done", !.outcome = outcome,
               !.rd = Pending.rd, !.wr = Pending.wr]

\* What getSession hands back, as the caller sees it at that moment.
Returned(m, e, call, obj, rows) ==
    [call EXCEPT !.got = obj, !.val = m.heap[obj],
                 !.busy = \/ call.busy
                          \/ \E o \in Events :
                                /\ o > e
                                /\ events[o].pc # "pending"
                                /\ KeyOf(events[o]) = KeyOf(m.ev),
                 !.cached = IF m.cache[KeyOf(m.ev)] = None THEN 0
                            ELSE m.cache[KeyOf(m.ev)][1].data,
                 !.row = rows[KeyOf(m.ev)]]

\* saveSession up to its await: the cache is set, the upsert carries the
\* session as it is now.
SaveSessionNoCache(m, obj) == [m EXCEPT !.ev.wr = m.heap[obj]]
SaveSessionCall(m, obj) ==
    [m EXCEPT !.cache = CacheSet(m.cache, KeyOf(m.ev), obj, now),
              !.ev.wr = m.heap[obj]]

\* ------------------------------------------------- owner and user wizards
\* isOwner(ctx) of the handlers: String(...) on both sides.
IsOwnerAny(tenant, chat) == TRUE
IsOwner(tenant, chat) == String(chat) = String(tenant.owner_chat_id)

\* key.startsWith("sk-")
KeyValidAny(key) == TRUE
KeyValid(key) == StartsWith(key, "sk-")

\* Object.assign(tenant, data)
ObjectAssignNone(tenant, data) == tenant
ObjectAssign(tenant, data) == ApplyFields(tenant, data)

\* A handler returns after a reply, with no durable operation pending.
End(m, reply) ==
    [m EXCEPT !.ev = [Finish(m.ev, "admitted") EXCEPT
                         !.reply = reply, !.upd = None, !.mem = None]]

\* ... `await ctx.save()` of a wizard step on ctx.session; mem is what the
\* step assigns to ctx.tenant after the save, reply its answer.
SaveAfterUpdate(m, reply, mem) ==
    SaveSessionCall([m EXCEPT !.ev.pc = "o_save", !.ev.reply = reply,
                              !.ev.upd = None, !.ev.mem = mem], m.ev.session)

\* The same for a step (name) that begins with the save.
OwnerSave(m, name, reply, mem) ==
    SaveAfterUpdate([m EXCEPT !.ev.trans = Append(@, name)], reply, mem)

\* A wizard step issues its update of the tenant's row.
OwnerUpdate(m, name, fields) ==
    [m EXCEPT !.ev.pc = "o_update", !.ev.trans = Append(@, name),
              !.ev.upd = Some(fields)]

\* bot.on("text"), the AI and user wizard handler (the last text handler).
\* WA_WAITING_NAME creates an instance named by the text; any other stage
\* falls through to the AI logic, which ignores commands, answers that the
\* AI is off when the tenant has no key, and else asks for a completion.
UserText(m) ==
    LET stage == m.heap[m.ev.session].stage
        tenant == bots[m.ev.bot].obj
    IN IF stage # "" /\ stage # "READY" /\ stage = "WA_WAITING_NAME"
       THEN [m EXCEPT !.ev.pc = "wa_create",
                      !.ev.trans = Append(@, "WA_WAITING_NAME")]
       ELSE IF StartsWith(m.ev.text, "/") THEN End(m, "")
       ELSE IF tenant.openai_api_key = None
       THEN End([m EXCEPT !.ev.ai = "off"], "ai_off")
       ELSE [m EXCEPT !.ev.pc = "ai_call", !.ev.ai = "completion"]

\* next() of the owner's text handler: bot.command("id") answers /id, any
\* other text reaches the last text handler.
NextHandlers(m) ==
    IF m.ev.text = ID_CMD THEN End(m, "id") ELSE UserText(m)

\* bot.on("text"), the owner's wizard handler, up to its first await.
OwnerText(m) ==
    LET s == m.ev.session
        stage == m.heap[s].stage
        text == m.ev.text
        tenant == bots[m.ev.bot].obj
    IN IF ~IsOwner(tenant, JsNum(m.ev.chat)) THEN NextHandlers(m)
       ELSE IF StartsWith(text, "/") /\ text # CANCEL THEN NextHandlers(m)
       ELSE IF text = CANCEL
       THEN OwnerSave([m EXCEPT !.heap[s].stage = "READY"],
                      "cancel", "cancelled", None)
       ELSE IF stage = "OWNER_WAIT_SYNCPAY_ID"
       THEN OwnerSave([m EXCEPT !.heap[s].temp_sync_id = Some(Trim(text)),
                                !.heap[s].stage = "OWNER_WAIT_SYNCPAY_SECRET"],
                      stage, "step2", None)
       ELSE IF stage = "OWNER_WAIT_SYNCPAY_SECRET"
       THEN OwnerUpdate(m, stage,
                [syncpay_client_id |-> m.heap[s].temp_sync_id,
                 syncpay_client_secret |-> Some(Trim(text))])
       ELSE IF stage = "OWNER_WAIT_OPENAI_KEY"
       THEN IF ~KeyValid(Trim(text)) THEN End(m, "invalid_key")
            ELSE OwnerSave([m EXCEPT !.heap[s].temp_openai_key = Some(Trim(text)),
                                     !.heap[s].stage = "OWNER_WAIT_OPENAI_MODEL"],
                           stage, "choose_model", None)
       ELSE IF stage = "OWNER_WAIT_PROMPT"
       THEN OwnerUpdate(m, stage, [system_prompt |-> Some(Trim(text))])
       ELSE NextHandlers(m)

\* saveModel up to its await: without a key in the session it gives up.
SaveModel(m, modelName) ==
    LET key == m.heap[m.ev.session].temp_openai_key
    IN IF key = None THEN End(m, "expired")
       ELSE OwnerUpdate(m, "set_model",
                [openai_api_key |-> key, openai_model |-> Some(modelName)])

\* The owner_setup_* actions: the owner's session enters the wizard's first
\* stage.
OwnerSetup(m, stage) ==
    IF ~IsOwner(bots[m.ev.bot].obj, JsNum(m.ev.chat)) THEN End(m, "")
    ELSE OwnerSave([m EXCEPT !.heap[m.ev.session].stage = stage],
                   m.ev.kind, "prompt", None)

\* owner_reload_bot up to the select on tenants.
OwnerReload(m) ==
    IF ~IsOwner(bots[m.ev.bot].obj, JsNum(m.ev.chat)) THEN End(m, "")
    ELSE [m EXCEPT !.ev.pc = "o_select"]

\* The handler an update of the owner dashboard or a text reaches after the
\* middleware, up to its first await; an update no handler is registered for
\* ends there.
Handle(m) ==
    LET kind == m.ev.kind
        m1 == [m EXCEPT !.ev.stageAt = m.heap[m.ev.session].stage]
    IN IF kind = "text" THEN OwnerText(m1)
       ELSE IF kind = "owner_setup_syncpay" THEN OwnerSetup(m1, "OWNER_WAIT_SYNCPAY_ID")
       ELSE IF kind = "owner_setup_ai" THEN OwnerSetup(m1, "OWNER_WAIT_OPENAI_KEY")
       ELSE IF kind = "owner_setup_prompt" THEN OwnerSetup(m1, "OWNER_WAIT_PROMPT")
       ELSE IF kind = "owner_reload_bot" THEN OwnerReload(m1)
       ELSE IF kind = "set_model" THEN SaveModel(m1, m1.ev.model)
       ELSE End(m1, "")

\* WA_WAITING_NAME after its getSession: the instance is pushed, the stage
\* is READY, the session is saved.
WaAfterGet(m) ==
    LET obj == Cur(m.ev).got
    IN SaveSessionCall([m EXCEPT !.heap[obj].whatsapp = TRUE,
                                 !.heap[obj].instances = Append(@, Trim(m.ev.text)),
                                 !.heap[obj].stage = "READY",
                                 !.ev.local = obj, !.ev.pc = "h_save"], obj)

\* A handler after its getSession.  inst_add_new sets the stage on the
\* session object and calls saveSession; the WA_WAITING_NAME step goes on
\* with the instance.
AfterHandlerGet(m) ==
    LET obj == Cur(m.ev).got
        m1 == [m EXCEPT !.heap[obj].stage = "WA_WAITING_NAME",
                        !.ev.local = obj, !.ev.pc = "h_save"]
    IN IF Cur(m.ev).site = "wa" THEN WaAfterGet(m)
       ELSE SaveSessionCall(m1, obj)

RECURSIVE GetSessionCall(_, _, _, _)

\* The middleware after `await getSession`: ctx.session is set and next()
\* runs the handler; inst_add_new begins with a getSession of its own.
AfterMwGet(m, e, rows) ==
    LET m1 == [m EXCEPT !.ev.session = Cur(m.ev).got,
                        !.ev.outcome = "admitted"]
    IN IF m.ev.kind = "inst_add_new" THEN GetSessionCall(m1, e, "h1", rows)
       ELSE Handle(m1)

\* getSession up to its first await: a fresh cache entry is returned to the
\* caller, who goes on; else the select on bot_sessions is issued.
GetSessionCall(m, e, site, rows) ==
    LET key == KeyOf(m.ev)
        call == [NoCall EXCEPT
                   !.site = site, !.at = now,
                   !.entry = IF m.cache[key] = None THEN None
                             ELSE Some(m.cache[key][1].timestamp),
                   !.fresh = m.cache[key] = None /\ rows[key] = None,
                   !.busy = \E o \in Events \ {e} :
                               /\ InFlight(events[o])
                               /\ KeyOf(events[o]) = key]
        m1 == [m EXCEPT !.ev.calls = Append(@, call)]
    IN IF CacheFresh(m.cache, key, now)
       THEN LET m2 == [m1 EXCEPT !.ev = SetCur(m1.ev,
                         Returned(m1, e, [call EXCEPT !.via = "cache"],
                                  m.cache[key][1].data, rows))]
            IN IF site = "mw" THEN AfterMwGet(m2, e, rows)
               ELSE AfterHandlerGet(m2)
       ELSE [m1 EXCEPT !.ev = SetCur([m1.ev EXCEPT !.pc = "gs_read"],
                                     [call EXCEPT !.via = "db"])]

\* getSession returns obj from its durable branch and the caller goes on.
ReturnFromDb(m, e, obj, rows) ==
    LET m1 == [m EXCEPT !.ev = SetCur(m.ev, Returned(m, e, Cur(m.ev), obj, rows))]
    IN IF Cur(m.ev).site = "mw" THEN AfterMwGet(m1, e, rows)
       ELSE AfterHandlerGet(m1)

Machine(ev) == [ev |-> ev, cache |-> sessionCache, heap |-> heap]

Commit(e, m) ==
    /\ events' = [events EXCEPT ![e] = m.ev]
    /\ sessionCache' = m.cache
    /\ heap' = m.heap

\* The select executes at the database.
GsReadExec(e) ==
    /\ events[e].pc = "gs_read"
    /\ \E ok \in Outcomes :
         /\ Charge(ok)
         /\ events' = [events EXCEPT
                         ![e] = SetCur(
                            [events[e] EXCEPT
                               !.pc = "gs_rsp",
                               !.rd = IF ok
                                      THEN [err |-> FALSE,
                                            row |-> botSessions[KeyOf(events[e])]]
                                      ELSE [err |-> TRUE, row |-> None]],
                            [Cur(events[e]) EXCEPT !.didRead = TRUE])]
    /\ UNCHANGED <<now, storeVars, tenantsDb, bots, activeBots, loaded, nev,
                   hookVars, masterVars>>

\* error && error.code !== 'PGRST116': the select failed, other than by
\* finding no row.
ReadFailedNever(rd) == FALSE
ReadFailed(rd) == rd.err

\* getSession after the select: an error other than "no row" is thrown; a
\* row is healed, cached under the time the call began, and returned; no row
\* makes the default session and saves it.
GsReadDone(e) ==
    LET ev == events[e]
        key == KeyOf(ev)
        id == Len(heap) + 1
        m == Machine([ev EXCEPT !.rd = Pending.rd])
    IN /\ ev.pc = "gs_rsp"
       /\ IF ReadFailed(ev.rd)
          THEN /\ events' = [events EXCEPT ![e] =
                               [Finish(ev, "error") EXCEPT !.log = Append(@, "DB Error")]]
               /\ UNCHANGED <<sessionCache, heap>>
          ELSE IF ev.rd.row # None
          THEN Commit(e, ReturnFromDb(
                   [m EXCEPT !.heap = Append(heap, Heal(ev.rd.row[1])),
                             !.cache = CacheSet(sessionCache, key, id, Cur(ev).at)],
                   e, id, botSessions))
          ELSE Commit(e, SaveSessionCall(
                   [m EXCEPT !.heap = Append(heap, DefaultSession),
                             !.ev.pc = "gs_upsert", !.ev.gsObj = id], id))
       /\ UNCHANGED <<now, faults, botSessions, tenantsDb, bots, activeBots,
                      loaded, nev, hookVars, masterVars>>

\* The upsert of the default session ends (its error is not looked at), then
\* getSession caches the object under the time the call began and returns it.
\* The object is the one saveSession put in the cache.
GsUpsertDone(e) ==
    LET ev == events[e]
        key == KeyOf(ev)
        obj == ev.gsObj
    IN /\ ev.pc = "gs_upsert"
       /\ \E ok \in Outcomes :
            /\ Charge(ok)
            /\ botSessions' = IF ok THEN [botSessions EXCEPT ![key] = Some(ev.wr)]
                              ELSE botSessions
            /\ Commit(e, ReturnFromDb(
                   [ev |-> SetCur([ev EXCEPT !.wr = Pending.wr, !.gsObj = 0],
                                  [Cur(ev) EXCEPT !.wrOk = ok]),
                    cache |-> CacheSet(sessionCache, key, obj, Cur(ev).at),
                    heap |-> heap],
                   e, obj, botSessions'))
       /\ UNCHANGED <<now, tenantsDb, bots, activeBots, loaded, nev, hookVars, masterVars>>

\* -------------------------------------------------------------- middleware
\* checkUserExists: !!data of the select; a failed select has data null.
CheckUserExists(row, ok) == ok /\ row # None

CounterOf(b) == bots[b].obj.activeUserCount

\* bot.use(...) up to its first await, for an update of chat u delivered to
\* the running bot b.  The expiration check refuses a non-owner; a non-owner
\* whose key is not in sessionCache waits for checkUserExists; anyone else
\* goes on to getSession.
DeliverUpdate(e, b, u, kind, text, model) ==
    LET tenant == bots[b].obj
        chat == JsNum(u)
        key == CacheKey(tenant.id, u)
        ev == [Pending EXCEPT !.bot = b, !.chat = u, !.kind = kind,
                              !.text = text, !.model = model,
                              !.at = now,
                              !.cachedAtGate = sessionCache[key] # None]
    IN /\ e = nev + 1
       /\ e \in Events
       /\ b \in 1..Len(bots)
       /\ bots[b].state = "running"
       /\ nev' = e
       /\ Commit(e,
            IF PlanExpired(tenant, now) /\ ~MwIsOwner(tenant, chat)
            THEN Machine(Finish(ev, "expired"))
            ELSE IF ~MwIsOwner(tenant, chat) /\ sessionCache[key] = None
            THEN Machine([ev EXCEPT !.pc = "exists"])
            ELSE GetSessionCall(Machine(ev), e, "mw", botSessions))
       /\ UNCHANGED <<now, faults, botSessions, tenantsDb, bots, activeBots,
                      loaded, hookVars, masterVars>>

Deliver(e, b, u, kind) == DeliverUpdate(e, b, u, kind, NoText, "")

\* The middleware after `await checkUserExists`: a user with no row is new;
\* a new user is refused when the counter has reached the limit, and is
\* counted otherwise; then getSession is called.
LimitCountFirst(e, ev, b, exists) ==
    /\ bots' = IF exists THEN bots
               ELSE [bots EXCEPT ![b].obj.activeUserCount = @ + 1]
    /\ Commit(e,
         IF ~exists /\ CounterOf(b) >= MaxUsersOf(bots[b].obj)
         THEN Machine(Finish(ev, "limit"))
         ELSE GetSessionCall(Machine([ev EXCEPT !.counted = ~exists]), e, "mw",
                             botSessions))
LimitCheck(e, ev, b, exists) ==
    IF ~exists /\ CounterOf(b) >= MaxUsersOf(bots[b].obj)
    THEN /\ Commit(e, Machine(Finish(ev, "limit")))
         /\ UNCHANGED bots
    ELSE /\ bots' = IF exists THEN bots
                    ELSE [bots EXCEPT ![b].obj.activeUserCount = @ + 1]
         /\ Commit(e, GetSessionCall(Machine([ev EXCEPT !.counted = ~exists]),
                                     e, "mw", botSessions))

\* The users a tenant has seen: a row, a cache entry, or counted as new.
KnownUsers(b) ==
    {u \in Users :
        \/ botSessions[CacheKey(bots[b].obj.id, u)] # None
        \/ sessionCache[CacheKey(bots[b].obj.id, u)] # None
        \/ \E o \in Events : /\ events[o].counted
                              /\ events[o].chat = u
                              /\ bots[events[o].bot].obj.id = bots[b].obj.id}

ExistsDone(e) ==
    LET ev == events[e]
        row == botSessions[KeyOf(ev)]
    IN /\ ev.pc = "exists"
       /\ \E ok \in Outcomes :
            /\ Charge(ok)
            /\ LimitCheck(e, [ev EXCEPT !.rowAtCheck = row # None,
                                         !.known = KnownUsers(ev.bot)], ev.bot,
                          CheckUserExists(row, ok))
       /\ UNCHANGED <<now, botSessions, tenantsDb, activeBots, loaded, nev,
                      hookVars, masterVars>>

\* ---------------------------------------------------------------- handlers
\* The upsert of the handler's saveSession ends (its error is not looked
\* at) and the handler replies.
SaveDone(e) ==
    LET ev == events[e]
        key == KeyOf(ev)
    IN /\ ev.pc = "h_save"
       /\ \E ok \in Outcomes :
            /\ Charge(ok)
            /\ botSessions' = IF ok THEN [botSessions EXCEPT ![key] = Some(ev.wr)]
                              ELSE botSessions
       /\ events' = [events EXCEPT ![e] = Finish(ev, ev.outcome)]
       /\ UNCHANGED <<now, sessionCache, heap, tenantsDb, bots, activeBots,
                      loaded, nev, hookVars, masterVars>>

Kinds == {"inst_add_new"}

Next ==
    \/ Tick
    \/ LoadTenants
    \/ \E b \in 1..Len(bots) : StartTenantBotResume(b)
    \/ \E e \in Events, b \in 1..Len(bots), u \in Users, kind \in Kinds :
          Deliver(e, b, u, kind)
    \/ \E e \in Events : ExistsDone(e)
    \/ \E e \in Events : GsReadExec(e)
    \/ \E e \in Events : GsReadDone(e)
    \/ \E e \in Events : GsUpsertDone(e)
    \/ \E e \in Events : SaveDone(e)

Spec == Init /\ [][Next]_vars

\* The same program with no durable operation failing.
InitReliable ==
    /\ InitCommon
    /\ faults = MaxFaults
    /\ botSessions \in InitSessions
    /\ tenantsDb \in InitTenants

SpecReliable == InitReliable /\ [][Next]_vars

\* The same program started over a table where user 2 has a row of any
\* legacy shape, with no durable operation failing.
InitHeal ==
    /\ InitCommon
    /\ faults = MaxFaults
    /\ \E r \in LegacyRows :
         botSessions = [k \in Keys |-> IF k = <<1, 2>> THEN Some(r) ELSE None]
    /\ tenantsDb = [t \in Tenants |-> IF t = 1
                                       THEN TenantRow(1, JsStr(1), None, Some(1), TRUE)
                                       ELSE BlockedTenant]

SpecHeal == InitHeal /\ [][Next]_vars

\* Two tenants run side by side, tenant t owned by chat t, each with room
\* for two users; the owners have a row or none, and each counter is the
\* number of rows of its tenant.
InitTenantsRun ==
    /\ now = 0
    /\ faults = 0
    /\ sessionCache = [k \in Keys |-> None]
    /\ heap = <<>>
    /\ loaded = TRUE
    /\ events = [e \in Events |-> Pending]
    /\ nev = 0
    /\ hooks = <<>>
    /\ masterOps = <<>>
    /\ MasterIdle
    /\ activeBots = [t \in Tenants |-> t]
    /\ tenantsDb = [t \in Tenants |-> TenantRow(t, JsStr(t), None, Some(2), TRUE)]
    /\ \E r1 \in InitRowsOf(1), r2 \in InitRowsOf(2) :
         /\ botSessions = [k \in Keys |-> IF k = <<1, 1>> THEN r1
                                          ELSE IF k = <<2, 2>> THEN r2 ELSE None]
         /\ bots = [t \in Tenants |->
                      [obj |-> TenantObj(tenantsDb[t],
                                         IF (IF t = 1 THEN r1 ELSE r2) = None
                                         THEN 0 ELSE 1),
                       state |-> "running", prev |-> 0, prevStopOk |-> TRUE,
                       startCount |-> IF (IF t = 1 THEN r1 ELSE r2) = None THEN 0 ELSE 1]]

NextTenantsRun ==
    \/ \E e \in Events, b \in 1..Len(bots), u \in Users, kind \in Kinds :
          Deliver(e, b, u, kind)
    \/ \E e \in Events : ExistsDone(e)
    \/ \E e \in Events : GsReadExec(e)
    \/ \E e \in Events : GsReadDone(e)
    \/ \E e \in Events : GsUpsertDone(e)
    \/ \E e \in Events : SaveDone(e)

SpecTenantsRun == InitTenantsRun /\ [][NextTenantsRun]_vars

\* ---------------------------------------------------------------- webhook
\* POST /webhook/master.  A notification, after `req.body.data || req.body`:
\* its status, the tenant id that the pattern
\* tenant_(\d+)@ finds in client.email, the id after "SUB_" in external_id;
\* None when the field is missing or does not match.
Statuses == {"completed", "PAID", "RECEIVED", "pending", "COMPLETED"}

Payloads == [status : Statuses, email : {None, Some(1), Some(3)},
             external_id : {None, Some(1)}]

\* status !== "completed" && status !== "PAID" && status !== "RECEIVED",
\* negated.
EligibleAny(status) == TRUE
EligibleStatus(status) ==
    status = "completed" \/ status = "PAID" \/ status = "RECEIVED"

\* The id from the email, else from external_id; None when neither gives one.
ExtractOrFirst(p) ==
    IF p.email # None THEN p.email
    ELSE IF p.external_id # None THEN p.external_id ELSE Some(1)
ExtractTenantId(p) == IF p.email # None THEN p.email ELSE p.external_id

\* +30 days from now, or from the stored expiration if that is still ahead.
NewExpiration(tenant, t) ==
    LET baseDate == IF tenant.expiration_date # None
                       /\ tenant.expiration_date[1] > t
                    THEN tenant.expiration_date[1] ELSE t
    IN baseDate + RENEW_DAYS * DaySec

\* A request: its payload and response, the tenant row the select gave, the
\* expiration computed and when; after is the tenant's row when the request
\* was answered, alone whether every earlier request had been answered when
\* this one came.
NoHook ==
    [pc |-> "done", payload |-> [status |-> "", email |-> None, external_id |-> None],
     resp |-> "none", tenantId |-> None, tenant |-> None, newExpiration |-> 0,
     at |-> 0, after |-> None, notified |-> FALSE, notifyErr |-> FALSE,
     alone |-> TRUE]

TickDay ==
    /\ now < MaxDays * DaySec
    /\ now' = now + DaySec
    /\ UNCHANGED <<faults, storeVars, tenantsDb, bots, activeBots, loaded,
                   events, nev, hookVars, masterVars>>

\* The handler up to its first await: a status that is not eligible is
\* answered {ignored: true}, a payload with no tenant id 400; else the select
\* on tenants is issued.
WebhookReceive(p) ==
    LET tenantId == ExtractTenantId(p)
        h == [NoHook EXCEPT !.payload = p,
                            !.alone = \A i \in 1..Len(hooks) : hooks[i].pc = "done"]
    IN /\ Len(hooks) < MaxHooks
       /\ hooks' = Append(hooks,
            IF ~EligibleStatus(p.status) THEN [h EXCEPT !.resp = "ignored"]
            ELSE IF tenantId = None THEN [h EXCEPT !.resp = "400"]
            ELSE [h EXCEPT !.pc = "select", !.tenantId = tenantId])
       /\ UNCHANGED <<now, faults, storeVars, tenantsDb, bots, activeBots,
                      loaded, events, nev,
                      masterVars>>

\* After the select: an error or no row is answered 404; else the new
\* expiration is computed and the update is issued.
WebhookSelectDone(i) ==
    LET h == hooks[i]
        id == h.tenantId[1]
    IN /\ h.pc = "select"
       /\ \E ok \in Outcomes :
            /\ Charge(ok)
            /\ hooks' = [hooks EXCEPT ![i] =
                 IF ~ok \/ id \notin Tenants
                 THEN [h EXCEPT !.pc = "done", !.resp = "404"]
                 ELSE [h EXCEPT !.pc = "update",
                                !.tenant = Some(tenantsDb[id]),
                                !.at = now,
                                !.newExpiration = NewExpiration(tenantsDb[id], now)]]
       /\ UNCHANGED <<now, storeVars, tenantsDb, bots, activeBots, loaded,
                      events, nev,
                      masterVars>>

\* activeBots.has(tenant.id), then `if (tenant.owner_chat_id)`.
ShouldNotifyAlways(reg, tenant) == TRUE
ShouldNotify(reg, tenant) == reg # 0 /\ tenant.owner_chat_id # JsNull

\* After the update, whose error is not looked at: the owner is notified if
\* the tenant has a registered bot, and the request is answered success.
\* sendMessage is not awaited; its rejection (notifyErr) is caught and
\* logged.
WebhookUpdateDone(i) ==
    LET h == hooks[i]
        id == h.tenantId[1]
    IN /\ h.pc = "update"
       /\ \E ok \in Outcomes :
            /\ Charge(ok)
            /\ tenantsDb' = IF ok
                            THEN [tenantsDb EXCEPT
                                    ![id].expiration_date = Some(h.newExpiration),
                                    ![id].is_active = TRUE]
                            ELSE tenantsDb
       /\ \E sent \in BOOLEAN :
            LET notify == ShouldNotify(activeBots[h.tenant[1].id], h.tenant[1])
            IN hooks' = [hooks EXCEPT ![i] =
                  [h EXCEPT !.pc = "done", !.resp = "success",
                            !.after = Some(tenantsDb'[id]),
                            !.notified = notify,
                            !.notifyErr = notify /\ ~sent]]
       /\ UNCHANGED <<now, storeVars, bots, activeBots, loaded, events, nev,
                      masterVars>>

InitWebhook ==
    /\ InitCommon
    /\ faults = 0
    /\ botSessions = [k \in Keys |-> None]
    /\ tenantsDb \in
         {[t \in Tenants |-> IF t = 1 THEN TenantRow(1, JsStr(1), exp, Some(1), active)
                             ELSE BlockedTenant] :
             exp \in {None, Some(0), Some(DaySec), Some(40 * DaySec)},
             active \in BOOLEAN}

NextWebhook ==
    \/ TickDay
    \/ LoadTenants
    \/ \E b \in 1..Len(bots) : StartTenantBotResume(b)
    \/ \E p \in Payloads : WebhookReceive(p)
    \/ \E i \in 1..Len(hooks) : WebhookSelectDone(i)
    \/ \E i \in 1..Len(hooks) : WebhookUpdateDone(i)

SpecWebhook == InitWebhook /\ [][NextWebhook]_vars

\* -------------------------------------------------------------- lifecycle
\* The process ends: no instance runs, nothing is registered, no handler
\* goes on.
Terminated(B) == [b \in 1..Len(B) |-> [B[b] EXCEPT !.state = "dead"]]

\* Telegram refuses the token of a launched instance: the rejection of
\* launch() is caught and logged, the instance stays registered; the
\* rejection of setMyCommands(...) has no handler, which the runtime either
\* reports and ignores or answers by ending the process.
TelegramRejects(b) ==
    /\ b \in 1..Len(bots)
    /\ bots[b].state = "running"
    /\ faults < MaxFaults
    /\ faults' = faults + 1
    /\ \E fatal \in BOOLEAN :
         IF fatal
         THEN /\ bots' = Terminated(bots)
              /\ activeBots' = [t \in Tenants |-> 0]
              /\ masterOps' = [i \in 1..Len(masterOps) |->
                                 [masterOps[i] EXCEPT !.pc = "dead"]]
         ELSE /\ bots' = [bots EXCEPT ![b].state = "failed"]
              /\ UNCHANGED <<activeBots, masterOps>>
    /\ UNCHANGED <<now, storeVars, tenantsDb, loaded, events, nev, hookVars, masterBotVars>>

\* loadTenants() as the master bot's price, limit and renewal wizards call
\* it after their update (not awaited): the select, then startTenantBot for
\* every active tenant, which stops the instance each has registered.
ReloadTenants ==
    /\ loaded
    /\ \A b \in 1..Len(bots) : bots[b].state # "dead"
    /\ Len(bots) + Len(ActiveTenants) <= MaxBots
    /\ \E ok \in Outcomes :
         IF ~ok THEN Charge(ok) /\ UNCHANGED bots
         ELSE \E failing \in {0} \cup {t \in Tenants : faults < MaxFaults
                                                       /\ tenantsDb[t].is_active
                                                       /\ activeBots[t] # 0} :
                 /\ faults' = IF failing = 0 THEN faults ELSE faults + 1
                 /\ bots' = StartEach(bots, ActiveTenants, failing)
    /\ UNCHANGED <<now, storeVars, tenantsDb, activeBots, loaded, events, nev,
                   hookVars, masterVars>>

\* masterBot.action(/cmd_toggle_active_(.+)/): a run of the handler for
\* tenant id; newState is what it sets is_active to, resp how it ended, and
\* regAtEnd the instance registered for the tenant when it ended.
NoOp ==
    [pc |-> "done", id |-> 0, newState |-> FALSE, resp |-> "none", regAtEnd |-> 0]

\* The handler up to its first await, the select of is_active.
MasterToggle(t) ==
    /\ Len(masterOps) < MaxToggles
    /\ \A b \in 1..Len(bots) : bots[b].state # "dead"
    /\ masterOps' = Append(masterOps, [NoOp EXCEPT !.pc = "read", !.id = t])
    /\ UNCHANGED <<now, faults, storeVars, tenantsDb, bots, activeBots, loaded,
                   events, nev, hookVars, masterBotVars>>

\* After the select: with no row, !t.is_active throws; else the update of
\* is_active to its negation is issued.
ToggleReadDone(i) ==
    LET op == masterOps[i]
    IN /\ op.pc = "read"
       /\ \E ok \in Outcomes :
            /\ Charge(ok)
            /\ masterOps' = [masterOps EXCEPT ![i] =
                 IF ok THEN [op EXCEPT !.pc = "update",
                                       !.newState = ~tenantsDb[op.id].is_active]
                 ELSE [op EXCEPT !.pc = "done", !.resp = "threw",
                                 !.regAtEnd = activeBots[op.id]]]
       /\ UNCHANGED <<now, storeVars, tenantsDb, bots, activeBots, loaded,
                      events, nev, hookVars, masterBotVars>>

\* After the update, whose error is not looked at.  Blocking: a registered
\* instance has stop() called on it (a throw ends the handler there) and is
\* deleted from activeBots, and the handler replies.  Unblocking: the select
\* of the tenant row is issued.
ToggleUpdateDone(i) ==
    LET op == masterOps[i]
        reg == activeBots[op.id]
        stops == ~op.newState /\ reg # 0
    IN /\ op.pc = "update"
       /\ \E ok \in Outcomes, stopOk \in Outcomes :
            /\ ok \/ stopOk
            /\ ~stops => stopOk
            /\ faults' = IF ok /\ stopOk THEN faults ELSE faults + 1
            /\ tenantsDb' = IF ok THEN [tenantsDb EXCEPT ![op.id].is_active = op.newState]
                            ELSE tenantsDb
            /\ IF op.newState
               THEN /\ masterOps' = [masterOps EXCEPT ![i].pc = "select"]
                    /\ UNCHANGED <<bots, activeBots>>
               ELSE IF stops /\ ~stopOk
               THEN /\ masterOps' = [masterOps EXCEPT ![i] =
                          [op EXCEPT !.pc = "done", !.resp = "threw", !.regAtEnd = reg]]
                    /\ UNCHANGED <<bots, activeBots>>
               ELSE /\ masterOps' = [masterOps EXCEPT ![i] =
                          [op EXCEPT !.pc = "done", !.resp = "blocked", !.regAtEnd = 0]]
                    /\ bots' = IF stops THEN [bots EXCEPT ![reg].state = "stopped"]
                               ELSE bots
                    /\ activeBots' = [activeBots EXCEPT ![op.id] = 0]
       /\ UNCHANGED <<now, storeVars, loaded, events, nev, hookVars, masterBotVars>>

\* Unblocking, after the select of the row: startTenantBot is called with it
\* and not awaited, and the handler replies.  With no row the call rejects at
\* tenant.id and starts nothing.
ToggleSelectDone(i) ==
    LET op == masterOps[i]
        reg == activeBots[op.id]
    IN /\ op.pc = "select"
       /\ \E ok \in Outcomes, stopOk \in Outcomes :
            /\ ok \/ stopOk
            /\ ~(ok /\ reg # 0) => stopOk
            /\ faults' = IF ok /\ stopOk THEN faults ELSE faults + 1
            /\ bots' = IF ok THEN StartTenantBot(bots, tenantsDb[op.id], stopOk)
                       ELSE bots
       /\ masterOps' = [masterOps EXCEPT ![i] =
            [op EXCEPT !.pc = "done", !.resp = "unblocked", !.regAtEnd = reg]]
       /\ UNCHANGED <<now, storeVars, tenantsDb, activeBots, loaded, events,
                      nev, hookVars, masterBotVars>>

\* Both tenants may be active or blocked when the process starts.
InitLifecycle ==
    /\ InitCommon
    /\ faults = 0
    /\ botSessions = [k \in Keys |-> None]
    /\ tenantsDb \in
         {[t \in Tenants |-> TenantRow(t, JsStr(t), None, Some(1), IF t = 1 THEN a1 ELSE a2)] :
             a1 \in BOOLEAN, a2 \in BOOLEAN}

NextLifecycle ==
    \/ LoadTenants
    \/ \E b \in 1..Len(bots) : StartTenantBotResume(b)
    \/ \E b \in 1..Len(bots) : TelegramRejects(b)
    \/ ReloadTenants
    \/ \E t \in Tenants : MasterToggle(t)
    \/ \E i \in 1..Len(masterOps) : ToggleReadDone(i)
    \/ \E i \in 1..Len(masterOps) : ToggleUpdateDone(i)
    \/ \E i \in 1..Len(masterOps) : ToggleSelectDone(i)

SpecLifecycle == InitLifecycle /\ [][NextLifecycle]_vars

\* A startTenantBot call whose count query is out gets its answer.
FairLifecycle ==
    /\ SpecLifecycle
    /\ \A b \in 1..(MaxBots + MaxToggles) : WF_vars(StartTenantBotResume(b))

\* ------------------------------------------------- owner dashboard, steps
\* The update of the tenant's row a wizard step issued is back.  On an error
\* the step replies and ends.  Else the prompt step assigns the prompt to
\* ctx.tenant at once; every step sets the stage to READY, clears its scratch
\* field and saves the session; the SyncPay and model steps assign their
\* fields to ctx.tenant after the save.
OwnerUpdateDone(e) ==
    LET ev == events[e]
        b == ev.bot
        id == bots[b].obj.id
        s == ev.session
        fields == ev.upd[1]
        m == Machine([ev EXCEPT !.committed = Some(fields)])
    IN /\ ev.pc = "o_update"
       /\ \E ok \in Outcomes :
            /\ Charge(ok)
            /\ tenantsDb' = IF ok THEN [tenantsDb EXCEPT ![id] = ApplyFields(@, fields)]
                            ELSE tenantsDb
            /\ IF ~ok
               THEN /\ Commit(e, End(Machine(ev), "error"))
                    /\ UNCHANGED bots
               ELSE IF ev.kind = "set_model"
               THEN /\ Commit(e, SaveAfterUpdate(
                         [m EXCEPT !.heap[s].stage = "READY",
                                   !.heap[s].temp_openai_key = None],
                         "model_saved", Some(fields)))
                    /\ UNCHANGED bots
               ELSE IF ev.stageAt = "OWNER_WAIT_SYNCPAY_SECRET"
               THEN /\ Commit(e, SaveAfterUpdate(
                         [m EXCEPT !.heap[s].stage = "READY",
                                   !.heap[s].temp_sync_id = None],
                         "syncpay_saved", Some(fields)))
                    /\ UNCHANGED bots
               ELSE /\ bots' = [bots EXCEPT ![b].obj = ApplyFields(@, fields)]
                    /\ Commit(e, SaveAfterUpdate(
                         [m EXCEPT !.heap[s].stage = "READY"],
                         "prompt_saved", None))
       /\ UNCHANGED <<now, botSessions, activeBots, loaded, nev, hookVars, masterVars>>

\* The upsert of ctx.save() is back (its error is not looked at); the step
\* assigns what it wrote to ctx.tenant and replies.
OwnerSaveDone(e) ==
    LET ev == events[e]
        key == KeyOf(ev)
    IN /\ ev.pc = "o_save"
       /\ \E ok \in Outcomes :
            /\ Charge(ok)
            /\ botSessions' = IF ok THEN [botSessions EXCEPT ![key] = Some(ev.wr)]
                              ELSE botSessions
       /\ bots' = IF ev.mem = None THEN bots
                  ELSE [bots EXCEPT ![ev.bot].obj = ApplyFields(@, ev.mem[1])]
       /\ events' = [events EXCEPT ![e] = [Finish(ev, "admitted") EXCEPT !.mem = None]]
       /\ UNCHANGED <<now, sessionCache, heap, tenantsDb, activeBots, loaded, nev,
                      hookVars, masterVars>>

\* owner_reload_bot after its select: a row is assigned over the tenant
\* object; no row (the select failed) leaves the handler with nothing to do.
ReloadSelectDone(e) ==
    LET ev == events[e]
        b == ev.bot
        id == bots[b].obj.id
    IN /\ ev.pc = "o_select"
       /\ \E ok \in Outcomes :
            /\ Charge(ok)
            /\ bots' = IF ok THEN [bots EXCEPT ![b].obj = ObjectAssign(@, tenantsDb[id])]
                       ELSE bots
            /\ events' = [events EXCEPT ![e] =
                            [Finish(ev, "admitted") EXCEPT
                               !.reply = IF ok THEN "reloaded" ELSE ""]]
       /\ UNCHANGED <<now, storeVars, tenantsDb, activeBots, loaded, nev,
                      hookVars, masterVars>>

\* What fetch of the gateway can come back with.
RawResponses == {"created", "refused", "non_json", "unreachable"}

\* callWuzapi: the parsed body; a body that is not JSON and a fetch that
\* throws are both turned into {error: true, success: false}.
CallWuzapi(raw) ==
    IF raw = "unreachable" THEN [error |-> TRUE, success |-> FALSE]
    ELSE IF raw = "non_json" THEN [error |-> TRUE, success |-> FALSE]
    ELSE [error |-> FALSE, success |-> raw = "created"]

\* if (createRes.success)
CreateSucceededAlways(createRes) == TRUE
CreateSucceeded(createRes) == createRes.success

\* WA_WAITING_NAME after its gateway calls (create user, set webhook): on
\* success it calls getSession and goes on with the instance; else it sets
\* the stage to READY and saves.
WaCreateDone(e) ==
    LET ev == events[e]
        s == ev.session
    IN /\ ev.pc = "wa_create"
       /\ \E raw \in RawResponses :
            LET createRes == CallWuzapi(raw)
                m == [Machine(ev) EXCEPT !.ev.wa = raw]
            IN Commit(e, IF CreateSucceeded(createRes)
                         THEN GetSessionCall(m, e, "wa", botSessions)
                         ELSE SaveAfterUpdate(
                                 [m EXCEPT !.heap[s].stage = "READY"],
                                 "wa_failed", None))
       /\ UNCHANGED <<now, faults, botSessions, tenantsDb, bots, activeBots,
                      loaded, nev, hookVars, masterVars>>

\* The completion is back (or failed): the handler replies.
AiDone(e) ==
    /\ events[e].pc = "ai_call"
    /\ events' = [events EXCEPT ![e] = [Finish(events[e], "admitted") EXCEPT
                                          !.reply = "ai"]]
    /\ UNCHANGED <<now, faults, storeVars, tenantsDb, bots, activeBots, loaded,
                   nev, hookVars, masterVars>>

\* The updates of the owner dashboard and the texts.
OwnerActions ==
    {"owner_setup_syncpay", "owner_setup_ai", "owner_setup_prompt",
     "owner_reload_bot"}
Models == {"gpt-4o-mini"}
Updates ==
    [kind : {"text"}, text : Texts, model : {""}]
      \cup [kind : OwnerActions, text : {NoText}, model : {""}]
      \cup [kind : {"set_model"}, text : {NoText}, model : Models]

\* A session blob with the scratch fields of the owner's wizards.
WizardSession(stage, key, syncId) ==
    [stage |-> stage, temp_openai_key |-> key, temp_sync_id |-> syncId]
      @@ DefaultSession

\* The owner (chat 1) is at rest or in the middle of a wizard, user 2 is at
\* rest or was asked for an instance name.
OwnerSessions ==
    {WizardSession("READY", None, None),
     WizardSession("OWNER_WAIT_OPENAI_KEY", None, None),
     WizardSession("OWNER_WAIT_OPENAI_MODEL", Some(Text("sk-", "1")), None),
     WizardSession("OWNER_WAIT_SYNCPAY_SECRET", None, Some(Text("", "hello")))}
UserSessions ==
    {WizardSession("READY", None, None),
     WizardSession("WA_WAITING_NAME", None, None)}

\* Tenant 1 runs, started from a row without expiration that has or has not
\* been renewed since; it has an AI key or none.  Both sessions are saved
\* and in the cache.
InitOwner ==
    /\ now = 0
    /\ faults = 0
    /\ loaded = TRUE
    /\ nev = 0
    /\ events = [e \in Events |-> Pending]
    /\ hooks = <<>>
    /\ masterOps = <<>>
    /\ MasterIdle
    /\ activeBots = [t \in Tenants |-> IF t = 1 THEN 1 ELSE 0]
    /\ \E so \in OwnerSessions, su \in UserSessions :
         /\ heap = <<so, su>>
         /\ botSessions = [k \in Keys |-> IF k = <<1, 1>> THEN Some(so)
                                          ELSE IF k = <<1, 2>> THEN Some(su)
                                          ELSE None]
    /\ sessionCache = [k \in Keys |-> IF k = <<1, 1>> THEN Some([data |-> 1, timestamp |-> 0])
                                      ELSE IF k = <<1, 2>> THEN Some([data |-> 2, timestamp |-> 0])
                                      ELSE None]
    /\ \E key \in {None, Some(Text("sk-", "0"))}, exp \in {None, Some(30 * DaySec)} :
         LET cfg == [NoConfig EXCEPT !.openai_api_key = key]
             row == cfg @@ TenantRow(1, JsStr(1), None, Some(1), TRUE)
         IN /\ bots = <<[obj |-> TenantObj(row, 2), state |-> "running",
                         prev |-> 0, prevStopOk |-> TRUE,
                       startCount |-> 2]>>
            /\ tenantsDb = [t \in Tenants |->
                              IF t = 1 THEN [row EXCEPT !.expiration_date = exp]
                              ELSE NoConfig @@ BlockedTenant]

NextOwner ==
    \/ \E e \in Events, u \in {1, 2}, upd \in Updates :
          DeliverUpdate(e, 1, u, upd.kind, upd.text, upd.model)
    \/ \E e \in Events : OwnerUpdateDone(e)
    \/ \E e \in Events : OwnerSaveDone(e)
    \/ \E e \in Events : ReloadSelectDone(e)
    \/ \E e \in Events : WaCreateDone(e)
    \/ \E e \in Events : SaveDone(e)
    \/ \E e \in Events : AiDone(e)

SpecOwner == InitOwner /\ [][NextOwner]_vars

\* The same tenant just after the process started: the rows are there, the
\* cache is empty, so the first events of a pair read bot_sessions.
InitRace ==
    /\ now = 0
    /\ faults = 0
    /\ loaded = TRUE
    /\ nev = 0
    /\ events = [e \in Events |-> Pending]
    /\ hooks = <<>>
    /\ masterOps = <<>>
    /\ MasterIdle
    /\ activeBots = [t \in Tenants |-> IF t = 1 THEN 1 ELSE 0]
    /\ heap = <<>>
    /\ sessionCache = [k \in Keys |-> None]
    /\ \E so \in OwnerSessions, su \in UserSessions :
         botSessions = [k \in Keys |-> IF k = <<1, 1>> THEN Some(so)
                                       ELSE IF k = <<1, 2>> THEN Some(su)
                                       ELSE None]
    /\ LET row == NoConfig @@ TenantRow(1, JsStr(1), None, Some(1), TRUE)
       IN /\ bots = <<[obj |-> TenantObj(row, 2), state |-> "running",
                       prev |-> 0, prevStopOk |-> TRUE,
                       startCount |-> 2]>>
          /\ tenantsDb = [t \in Tenants |->
                            IF t = 1 THEN row ELSE NoConfig @@ BlockedTenant]

NextRace ==
    \/ \E e \in Events, u \in {1, 2}, upd \in Updates :
          DeliverUpdate(e, 1, u, upd.kind, upd.text, upd.model)
    \/ \E e \in Events : ExistsDone(e)
    \/ \E e \in Events : GsReadExec(e)
    \/ \E e \in Events : GsReadDone(e)
    \/ \E e \in Events : OwnerUpdateDone(e)
    \/ \E e \in Events : OwnerSaveDone(e)
    \/ \E e \in Events : ReloadSelectDone(e)
    \/ \E e \in Events : WaCreateDone(e)
    \/ \E e \in Events : SaveDone(e)
    \/ \E e \in Events : AiDone(e)

SpecRace == InitRace /\ [][NextRace]_vars

\* -------------------------------------------------------------- master bot
\* A text sent to the master bot, as its characters in chunks; an update
\* that is no message has no text.
NoMasterText == <<>>
MEU_ID == <<"/meu_id">>
CANCELAR == <<"/cancelar">>
START_CMD == <<"/start">>
MasterTexts ==
    {MEU_ID, CANCELAR, START_CMD, <<"Acme">>, <<"77", ":", "AA">>, <<"2">>}

\* The decimal numerals among the chunks, and their values.
NumeralValue == [c \in {"2", "77"} |-> IF c = "2" THEN 2 ELSE 77]

\* text.trim()
RECURSIVE TrimStart(_)
TrimStart(text) ==
    IF text # <<>> /\ Head(text) = " " THEN TrimStart(Tail(text)) ELSE text
RECURSIVE TrimEnd(_)
TrimEnd(text) ==
    IF text # <<>> /\ text[Len(text)] = " "
    THEN TrimEnd(SubSeq(text, 1, Len(text) - 1)) ELSE text
TrimText(text) == TrimEnd(TrimStart(text))

\* text.includes(":")
IncludesAlways(text, ch) == TRUE
Includes(text, ch) == \E i \in 1..Len(text) : text[i] = ch

\* parseInt(text), and parseFloat(text.replace(",", ".")) on these texts:
\* the leading numeral, None for NaN.
ParseInt(text) ==
    IF text # <<>> /\ Head(text) \in DOMAIN NumeralValue
    THEN Some(NumeralValue[Head(text)]) ELSE None

\* A text as the string a column keeps: a decimal numeral is the String()
\* of that chat id; any other string is no chat's (d = 0).
JsText(text) ==
    IF Len(text) = 1 /\ Head(text) \in DOMAIN NumeralValue
    THEN JsStr(NumeralValue[Head(text)]) ELSE JsStr(0)

\* { stage, data } of masterSessions; data is {} or {id} at first and gains
\* name, telegram_token and owner_chat_id in the new-tenant wizard.
NoData == [id |-> 0, name |-> None, telegram_token |-> None, owner_chat_id |-> None]
MasterSession(stage, data) == [stage |-> stage, data |-> data]

\* An update sent to the master bot.  gate is what the security middleware
\* decided, stageAt the stage of the chat's session when the update came,
\* values what the insert carries, num the number parsed from the text, row
\* the id of the row inserted.
NoMasterEvent ==
    [pc |-> "done", chat |-> 0, kind |-> "", text |-> NoMasterText, id |-> 0,
     gate |-> "", stageAt |-> "", reply |-> "", values |-> None, num |-> 0,
     row |-> 0]

\* masterBot.use: /meu_id goes on for anyone; with no MASTER_ADMIN_ID the
\* middleware replies and ends; a chat other than the operator's is logged
\* and dropped; the operator goes on.
MasterGateOpen(admin, chat, text) == "next"
MasterGate(admin, chat, text) ==
    IF text = MEU_ID THEN "next"
    ELSE IF admin = None THEN "unconfigured"
    ELSE IF String(chat) # String(admin[1]) THEN "denied"
    ELSE "next"

\* masterBot.on("text") up to its first await; r = [sessions, ev].
MasterOnText(S, ev) ==
    LET c == ev.chat
        text == TrimText(ev.text)
    IN IF S[c] = None THEN [sessions |-> S, ev |-> ev]
       ELSE LET session == S[c][1]
                stage == session.stage
            IN IF text = CANCELAR
               THEN [sessions |-> [S EXCEPT ![c] = None],
                     ev |-> [ev EXCEPT !.reply = "cancelled"]]
               ELSE IF stage = "WAIT_NAME"
               THEN [sessions |-> [S EXCEPT ![c] = Some(MasterSession("WAIT_TOKEN",
                                      [session.data EXCEPT !.name = Some(text)]))],
                     ev |-> [ev EXCEPT !.reply = "ask_token"]]
               ELSE IF stage = "WAIT_TOKEN"
               THEN IF ~Includes(text, ":")
                    THEN [sessions |-> S, ev |-> [ev EXCEPT !.reply = "invalid_token"]]
                    ELSE [sessions |-> [S EXCEPT ![c] = Some(MasterSession("WAIT_OWNER_ID",
                                           [session.data EXCEPT !.telegram_token = Some(text)]))],
                          ev |-> [ev EXCEPT !.reply = "ask_owner"]]
               ELSE IF stage = "WAIT_OWNER_ID"
               THEN LET data == [session.data EXCEPT !.owner_chat_id = Some(text)]
                    IN [sessions |-> [S EXCEPT ![c] = Some(MasterSession(stage, data))],
                        ev |-> [ev EXCEPT !.pc = "insert", !.values = Some(data),
                                          !.reply = "creating"]]
               ELSE IF stage = "WAIT_LIMIT_VALUE"
               THEN IF ParseInt(text) = None
                    THEN [sessions |-> S, ev |-> [ev EXCEPT !.reply = "invalid_number"]]
                    ELSE [sessions |-> S,
                          ev |-> [ev EXCEPT !.pc = "limit_update",
                                            !.num = ParseInt(text)[1],
                                            !.id = session.data.id]]
               ELSE IF stage = "WAIT_GLOBAL_PRICE"
               THEN IF ParseInt(text) = None
                    THEN [sessions |-> S, ev |-> [ev EXCEPT !.reply = "invalid_number"]]
                    ELSE [sessions |-> S,
                          ev |-> [ev EXCEPT !.pc = "price_upsert",
                                            !.num = ParseInt(text)[1]]]
               ELSE [sessions |-> S, ev |-> ev]

\* The handlers behind the middleware, in the order they are registered:
\* command("start"), the actions, on("text"); command("meu_id") comes after
\* on("text"), which never calls next().
MasterHandle(S, ev) ==
    LET c == ev.chat
    IN IF ev.kind = "new_tenant_start"
       THEN [sessions |-> [S EXCEPT ![c] = Some(MasterSession("WAIT_NAME", NoData))],
             ev |-> [ev EXCEPT !.reply = "ask_name"]]
       ELSE IF ev.kind = "cmd_limit"
       THEN [sessions |-> [S EXCEPT ![c] = Some(MasterSession("WAIT_LIMIT_VALUE",
                               [NoData EXCEPT !.id = ev.id]))],
             ev |-> [ev EXCEPT !.reply = "ask_limit"]]
       ELSE IF ev.kind = "cmd_set_global_price"
       THEN [sessions |-> S, ev |-> [ev EXCEPT !.pc = "price_read"]]
       ELSE IF ev.text = START_CMD
       THEN [sessions |-> S, ev |-> [ev EXCEPT !.reply = "menu"]]
       ELSE MasterOnText(S, ev)

\* The updates the master bot is sent: texts and the buttons of its menus.
MasterUpdates ==
    [kind : {"text"}, text : MasterTexts, id : {0}]
      \cup [kind : {"new_tenant_start", "cmd_set_global_price"},
            text : {NoMasterText}, id : {0}]
      \cup [kind : {"cmd_limit"}, text : {NoMasterText}, id : {1}]

\* An update of chat c reaches the master bot: the middleware, then the
\* handler up to its first await.
MasterDeliver(c, upd) ==
    /\ Len(masterEvents) < MaxMasterEvents
    /\ LET gate == MasterGate(MASTER_ADMIN_ID, JsNum(c), upd.text)
           ev == [NoMasterEvent EXCEPT
                    !.chat = c, !.kind = upd.kind, !.text = upd.text,
                    !.id = upd.id, !.gate = gate,
                    !.stageAt = IF masterSessions[c] = None THEN ""
                                ELSE masterSessions[c][1].stage]
           r == IF gate = "next" THEN MasterHandle(masterSessions, ev)
                ELSE [sessions |-> masterSessions,
                      ev |-> [ev EXCEPT !.reply = IF gate = "unconfigured"
                                                  THEN "unconfigured" ELSE ""]]
       IN /\ masterSessions' = r.sessions
          /\ masterEvents' = Append(masterEvents, r.ev)
    /\ UNCHANGED <<now, faults, storeVars, tenantsDb, bots, activeBots, loaded,
                   events, nev, hookVars, masterOps, MASTER_ADMIN_ID, systemConfig>>

\* cmd_set_global_price after `await getGlobalPrice()` (a failed select
\* gives the default): the session is set.
MasterPriceReadDone(i) ==
    LET ev == masterEvents[i]
    IN /\ ev.pc = "price_read"
       /\ \E ok \in Outcomes : Charge(ok)
       /\ masterSessions' = [masterSessions EXCEPT
                               ![ev.chat] = Some(MasterSession("WAIT_GLOBAL_PRICE", NoData))]
       /\ masterEvents' = [masterEvents EXCEPT
                             ![i] = [ev EXCEPT !.pc = "done", !.reply = "ask_price"]]
       /\ UNCHANGED <<now, storeVars, tenantsDb, bots, activeBots, loaded,
                      events, nev, hookVars, masterOps, MASTER_ADMIN_ID, systemConfig>>

\* WAIT_GLOBAL_PRICE after the upsert on system_config: an error is
\* answered and the session stays; else the session is deleted.
MasterPriceUpsertDone(i) ==
    LET ev == masterEvents[i]
    IN /\ ev.pc = "price_upsert"
       /\ \E ok \in Outcomes :
            /\ Charge(ok)
            /\ systemConfig' = IF ok THEN Some(ev.num) ELSE systemConfig
            /\ masterSessions' = IF ok THEN [masterSessions EXCEPT ![ev.chat] = None]
                                 ELSE masterSessions
            /\ masterEvents' = [masterEvents EXCEPT
                 ![i] = [ev EXCEPT !.pc = "done",
                                   !.reply = IF ok THEN "price_updated" ELSE "error"]]
       /\ UNCHANGED <<now, storeVars, tenantsDb, bots, activeBots, loaded,
                      events, nev, hookVars, masterOps, MASTER_ADMIN_ID>>

\* The row the new-tenant wizard inserts, under the id the table gives it.
NewTenantRow(id, data) ==
    [name |-> data.name[1], telegram_token |-> data.telegram_token[1]]
      @@ NoConfig
      @@ TenantRow(id, JsText(data.owner_chat_id[1]), Some(now + 30 * DaySec),
                   None, TRUE)

\* WAIT_OWNER_ID after the insert: an error deletes the session and is
\* answered; else startTenantBot is called with the row (not awaited) and
\* the session is deleted.
MasterInsertDone(i) ==
    LET ev == masterEvents[i]
        id == Cardinality(DOMAIN tenantsDb) + 1
        row == NewTenantRow(id, ev.values[1])
    IN /\ ev.pc = "insert"
       /\ Len(bots) < MaxBots
       /\ \E ok \in Outcomes :
            /\ Charge(ok)
            /\ tenantsDb' = IF ok THEN (id :> row) @@ tenantsDb ELSE tenantsDb
            /\ bots' = IF ok THEN StartTenantBot(bots, row, TRUE) ELSE bots
            /\ masterEvents' = [masterEvents EXCEPT
                 ![i] = [ev EXCEPT !.pc = "done",
                                   !.reply = IF ok THEN "created" ELSE "error",
                                   !.row = IF ok THEN id ELSE 0]]
       /\ masterSessions' = [masterSessions EXCEPT ![ev.chat] = None]
       /\ UNCHANGED <<now, storeVars, activeBots, loaded, events, nev, hookVars,
                      masterOps, MASTER_ADMIN_ID, systemConfig>>

\* The end of the limit wizard: the session is deleted, loadTenants() is
\* called (not awaited) and the reply is sent.
LimitEnds(i, ev) ==
    /\ masterSessions' = [masterSessions EXCEPT ![ev.chat] = None]
    /\ masterEvents' = [masterEvents EXCEPT
                          ![i] = [ev EXCEPT !.pc = "reload", !.reply = "limit_updated"]]

\* WAIT_LIMIT_VALUE after the update of max_users, whose error is not
\* looked at: with an instance registered for the id the row is selected,
\* else the wizard ends.
MasterLimitUpdateDone(i) ==
    LET ev == masterEvents[i]
    IN /\ ev.pc = "limit_update"
       /\ \E ok \in Outcomes :
            /\ Charge(ok)
            /\ tenantsDb' = IF ok THEN [tenantsDb EXCEPT ![ev.id].max_users = Some(ev.num)]
                            ELSE tenantsDb
       /\ IF activeBots[ev.id] # 0
          THEN /\ masterEvents' = [masterEvents EXCEPT ![i].pc = "limit_select"]
               /\ UNCHANGED masterSessions
          ELSE LimitEnds(i, ev)
       /\ UNCHANGED <<now, storeVars, bots, activeBots, loaded, events, nev,
                      hookVars, masterOps, MASTER_ADMIN_ID, systemConfig>>

\* After the select of the row: startTenantBot is called with it (not
\* awaited; with no row the call rejects at tenant.id and starts nothing),
\* and the wizard ends.
MasterLimitSelectDone(i) ==
    LET ev == masterEvents[i]
    IN /\ ev.pc = "limit_select"
       /\ Len(bots) < MaxBots
       /\ \E ok \in Outcomes :
            /\ Charge(ok)
            /\ bots' = IF ok THEN StartTenantBot(bots, tenantsDb[ev.id], TRUE)
                       ELSE bots
       /\ LimitEnds(i, ev)
       /\ UNCHANGED <<now, storeVars, tenantsDb, activeBots, loaded, events, nev,
                      hookVars, masterOps, MASTER_ADMIN_ID, systemConfig>>

\* The select of the loadTenants() a wizard called is back: startTenantBot
\* for every active tenant; a failed select starts nothing.
MasterReloadDone(i) ==
    LET ev == masterEvents[i]
    IN /\ ev.pc = "reload"
       /\ Len(bots) + Len(ActiveTenants) <= MaxBots
       /\ \E ok \in Outcomes :
            /\ Charge(ok)
            /\ bots' = IF ok THEN StartEach(bots, ActiveTenants, 0) ELSE bots
       /\ masterEvents' = [masterEvents EXCEPT ![i].pc = "done"]
       /\ UNCHANGED <<now, storeVars, tenantsDb, activeBots, loaded, events, nev,
                      hookVars, masterOps, MASTER_ADMIN_ID, masterSessions,
                      systemConfig>>

\* The ids the tenants table can give out.
TenantIds == 1..(Cardinality(Tenants) + MaxMasterEvents)

\* The sessions the operator may be in the middle of.
MasterInitSessions ==
    {None,
     Some(MasterSession("WAIT_NAME", NoData)),
     Some(MasterSession("WAIT_TOKEN", [NoData EXCEPT !.name = Some(<<"Acme">>)])),
     Some(MasterSession("WAIT_OWNER_ID",
            [NoData EXCEPT !.name = Some(<<"Acme">>),
                           !.telegram_token = Some(<<"77", ":", "AA">>)])),
     Some(MasterSession("WAIT_LIMIT_VALUE", [NoData EXCEPT !.id = 1])),
     Some(MasterSession("WAIT_GLOBAL_PRICE", NoData))}

\* Tenant 1 runs, tenant 2 is blocked.  MASTER_ADMIN_ID is unset or chat 1;
\* the operator is at rest or in the middle of a wizard.
InitMaster ==
    /\ now = 0
    /\ faults = 0
    /\ loaded = TRUE
    /\ nev = 0
    /\ events = [e \in Events |-> Pending]
    /\ hooks = <<>>
    /\ masterOps = <<>>
    /\ sessionCache = [k \in Keys |-> None]
    /\ heap = <<>>
    /\ botSessions = [k \in Keys |-> None]
    /\ activeBots = [t \in TenantIds |-> IF t = 1 THEN 1 ELSE 0]
    /\ LET row == NoConfig @@ TenantRow(1, JsStr(1), None, Some(1), TRUE)
       IN /\ bots = <<[obj |-> TenantObj(row, 0), state |-> "running",
                       prev |-> 0, prevStopOk |-> TRUE,
                       startCount |-> 0]>>
          /\ tenantsDb = [t \in Tenants |->
                            IF t = 1 THEN row ELSE NoConfig @@ BlockedTenant]
    /\ MASTER_ADMIN_ID \in {None, Some(JsStr(1))}
    /\ \E s \in MasterInitSessions :
         masterSessions = [c \in Users |->
                             IF c = 1 /\ MASTER_ADMIN_ID # None THEN s ELSE None]
    /\ systemConfig = None
    /\ masterEvents = <<>>

NextMaster ==
    \/ \E c \in {1, 2}, upd \in MasterUpdates : MasterDeliver(c, upd)
    \/ \E i \in 1..Len(masterEvents) : MasterPriceReadDone(i)
    \/ \E i \in 1..Len(masterEvents) : MasterPriceUpsertDone(i)
    \/ \E i \in 1..Len(masterEvents) : MasterInsertDone(i)
    \/ \E i \in 1..Len(masterEvents) : MasterLimitUpdateDone(i)
    \/ \E i \in 1..Len(masterEvents) : MasterLimitSelectDone(i)
    \/ \E i \in 1..Len(masterEvents) : MasterReloadDone(i)
    \/ \E b \in 1..Len(bots) : StartTenantBotResume(b)

SpecMaster == InitMaster /\ [][NextMaster]_vars

\* ------------------------------------------- renewal and the running gate
\* Tenant 1 runs on an instance started from a row whose expiration is a
\* day in the past; payments for it are notified while its owner and user 2
\* use the instance.
InitRenewal ==
    /\ now = DaySec
    /\ faults = 0
    /\ loaded = TRUE
    /\ nev = 0
    /\ events = [e \in Events |-> Pending]
    /\ hooks = <<>>
    /\ masterOps = <<>>
    /\ MasterIdle
    /\ sessionCache = [k \in Keys |-> None]
    /\ heap = <<>>
    /\ botSessions = [k \in Keys |-> None]
    /\ activeBots = [t \in Tenants |-> IF t = 1 THEN 1 ELSE 0]
    /\ LET row == NoConfig @@ TenantRow(1, JsStr(1), Some(0), Some(1), TRUE)
       IN /\ bots = <<[obj |-> TenantObj(row, 0), state |-> "running",
                       prev |-> 0, prevStopOk |-> TRUE,
                       startCount |-> 0]>>
          /\ tenantsDb = [t \in Tenants |->
                            IF t = 1 THEN row ELSE NoConfig @@ BlockedTenant]

RenewalKinds == {"inst_add_new", "owner_reload_bot"}

\* Completed payments of tenant 1, and one that is still pending.
RenewalPayloads ==
    {p \in Payloads : /\ p.status \in {"completed", "pending"}
                      /\ p.email = Some(1) /\ p.external_id = None}

NextRenewal ==
    \/ \E p \in RenewalPayloads : WebhookReceive(p)
    \/ \E i \in 1..Len(hooks) : WebhookSelectDone(i)
    \/ \E i \in 1..Len(hooks) : WebhookUpdateDone(i)
    \/ \E e \in Events, u \in {1, 2}, kind \in RenewalKinds :
          DeliverUpdate(e, 1, u, kind, NoText, "")
    \/ \E e \in Events : ExistsDone(e)
    \/ \E e \in Events : GsReadExec(e)
    \/ \E e \in Events : GsReadDone(e)
    \/ \E e \in Events : GsUpsertDone(e)
    \/ \E e \in Events : SaveDone(e)
    \/ \E e \in Events : ReloadSelectDone(e)

SpecRenewal == InitRenewal /\ [][NextRenewal]_vars

\* The process starts with tenant 1 blocked or active, expired or not, and
\* payments for it are notified.
InitReactivation ==
    /\ InitCommon
    /\ faults = 0
    /\ botSessions = [k \in Keys |-> None]
    /\ tenantsDb \in
         {[t \in Tenants |-> IF t = 1 THEN TenantRow(1, JsStr(1), exp, Some(1), active)
                             ELSE BlockedTenant] :
             exp \in {None, Some(0)}, active \in BOOLEAN}

NextReactivation ==
    \/ TickDay
    \/ LoadTenants
    \/ \E b \in 1..Len(bots) : StartTenantBotResume(b)
    \/ \E p \in RenewalPayloads : WebhookReceive(p)
    \/ \E i \in 1..Len(hooks) : WebhookSelectDone(i)
    \/ \E i \in 1..Len(hooks) : WebhookUpdateDone(i)

SpecReactivation == InitReactivation /\ [][NextReactivation]_vars

\* Nothing that can go on waits for ever: the startup load, an instance
\* being started, a request being handled.
FairReactivation == SpecReactivation /\ WF_vars(NextReactivation)

\* One tenant runs with no user yet, its max_users column not set or set to
\* a limit the limit wizard stores (0 included: parseInt("0") is not NaN).
ConfiguredLimits == {None, Some(0), Some(1), Some(2)}

InitLimits ==
    /\ now = 0
    /\ faults = 0
    /\ sessionCache = [k \in Keys |-> None]
    /\ heap = <<>>
    /\ loaded = TRUE
    /\ events = [e \in Events |-> Pending]
    /\ nev = 0
    /\ hooks = <<>>
    /\ masterOps = <<>>
    /\ MasterIdle
    /\ activeBots = [t \in Tenants |-> IF t = 1 THEN 1 ELSE 0]
    /\ botSessions = [k \in Keys |-> None]
    /\ \E L \in ConfiguredLimits :
         /\ tenantsDb = [t \in Tenants |-> IF t = 1
                                           THEN TenantRow(1, JsStr(1), None, L, TRUE)
                                           ELSE BlockedTenant]
         /\ bots = <<[obj |-> TenantObj(TenantRow(1, JsStr(1), None, L, TRUE), 0),
                      state |-> "running", prev |-> 0, prevStopOk |-> TRUE,
                      startCount |-> 0]>>

SpecLimits == InitLimits /\ [][NextTenantsRun]_vars

\* ------------------------------------------------------------- properties
Delivered(e) == events[e].pc # "pending"

CallsOf(e) == {events[e].calls[i] : i \in 1..Len(events[e].calls)}

HasReturned(call) == call.got # 0

\* The event's chat is the tenant's owner / the tenant's plan had run out
\* when the event came, read off the tenant object directly.
FromOwner(e) == bots[events[e].bot].obj.owner_chat_id = JsStr(events[e].chat)

CameExpired(e) ==
    /\ bots[events[e].bot].obj.expiration_date # None
    /\ events[e].at > bots[events[e].bot].obj.expiration_date[1]

GetAfterSave(e) ==
    LET ev == events'[e]
        probe == [Pending EXCEPT !.bot = ev.bot, !.chat = ev.chat]
        m == GetSessionCall([ev |-> probe, cache |-> sessionCache',
                             heap |-> heap'], 0, "mw", botSessions')
        call == m.ev.calls[1]
    IN /\ call.via = "cache"
       /\ ~call.didRead
       /\ call.got = IF ev.pc = "h_save" THEN ev.local ELSE ev.gsObj
       /\ call.val = ev.wr

C2_RoundTrip ==
    [][\A e \in Events :
          /\ events'[e].pc \in {"h_save", "gs_upsert"}
          /\ events'[e].pc # events[e].pc
          => GetAfterSave(e)]_vars

\* An event is waiting for the upsert of its handler's save while a later
\* event of the same pair got the saved session from the cache.
C2_Witness ==
    \E e1, e2 \in Events :
       /\ e1 # e2
       /\ events[e1].pc = "h_save"
       /\ Delivered(e2)
       /\ KeyOf(events[e2]) = KeyOf(events[e1])
       /\ \E call \in CallsOf(e2) :
             /\ call.via = "cache"
             /\ call.got = events[e1].local
             /\ call.val = events[e1].wr

\* C3: getSession returns from the cache only when the entry is younger than
\* 5 minutes; a call that finds no entry, or one of 5 minutes or more, has
\* executed a select before it returns.
C3_CacheValidity ==
    \A e \in Events : \A call \in CallsOf(e) :
       /\ call.via = "cache" =>
             /\ call.entry # None
             /\ call.at - call.entry[1] < CACHE_TTL
             /\ ~call.didRead
       /\ HasReturned(call) /\ (call.entry = None \/ call.at - call.entry[1] >= CACHE_TTL)
             => call.didRead

\* A call found an entry exactly 5 minutes old and went to the table; another
\* returned from the cache.
C3_Witness ==
    /\ \E e \in Events : \E call \in CallsOf(e) :
          /\ HasReturned(call)
          /\ call.entry # None
          /\ call.at - call.entry[1] = CACHE_TTL
          /\ call.didRead
    /\ \E e \in Events : \E call \in CallsOf(e) : call.via = "cache"

\* C4 as stated: every session getSession returns has a stage, an instance
\* list and a report bag, whatever the stored row lacks.
C4_Complete ==
    \A e \in Events : \A call \in CallsOf(e) :
       HasReturned(call) =>
          /\ call.val.stage # ""
          /\ call.val.whatsapp
          /\ call.val.reports

\* C5: an event of a non-owner that comes when the tenant's expiration is
\* strictly past is refused as plan-expired; an event of the owner is never
\* refused, neither as expired nor at the limit, skips the new-user check,
\* and no step of an owner event changes the counter.
C5_Gate ==
    \A e \in Events : Delivered(e) =>
       /\ ~FromOwner(e) /\ CameExpired(e) =>
             events[e].pc = "done" /\ events[e].outcome = "expired"
       /\ FromOwner(e) =>
             /\ events[e].outcome \notin {"expired", "limit"}
             /\ events[e].pc # "exists"
             /\ ~events[e].counted
             /\ events[e].calls # <<>>

C5_OwnerFrame ==
    \A e \in Events :
       events'[e] # events[e] /\ FromOwner(e)' => bots' = bots

C5_ExpirationGate == []C5_Gate /\ [][C5_OwnerFrame]_vars

\* Under an expired plan with the counter at the limit, a non-owner was
\* refused and the owner was admitted.
C5_Witness ==
    \E e1, e2 \in Events :
       /\ Delivered(e1) /\ ~FromOwner(e1) /\ CameExpired(e1)
       /\ events[e1].outcome = "expired"
       /\ Delivered(e2) /\ FromOwner(e2) /\ CameExpired(e2)
       /\ events[e2].outcome = "admitted"
       /\ CounterOf(events[e2].bot) >= MaxUsersOf(bots[events[e2].bot].obj)

\* The gate has decided whether the event's user is new.
Decided(e) ==
    /\ events[e].pc \notin {"pending", "exists"}
    /\ ~FromOwner(e)
    /\ events[e].outcome # "expired"

NonOwnerKnown(e) ==
    {u \in events[e].known : JsStr(u) # bots[events[e].bot].obj.owner_chat_id}

\* C6 as stated: with max_users = N, a non-owner user never seen before is
\* admitted while fewer than N such users have been seen, and only a user
\* never seen before, coming when N have been seen, is refused at the limit.
C6_Quota ==
    \A e \in Events : Decided(e) /\ ~events[e].cachedAtGate =>
       LET N == bots[events[e].bot].obj.max_users[1]
       IN /\ events[e].outcome = "limit" =>
                /\ events[e].chat \notin events[e].known
                /\ Cardinality(NonOwnerKnown(e)) >= N
          /\ events[e].chat \notin events[e].known
                /\ Cardinality(NonOwnerKnown(e)) < N
                => events[e].outcome # "limit"

\* C7: the step that refuses an event, as plan-expired or at the limit,
\* leaves the cache, the session objects, the bot_sessions table and the
\* tenant's counter as they were, the event has made no getSession call, and
\* an event that has ended does nothing more.
C7_Frame ==
    \A e \in Events :
       /\ /\ events[e].pc # "done"
          /\ events'[e].pc = "done"
          /\ events'[e].outcome \in {"expired", "limit"}
          => /\ UNCHANGED <<sessionCache, heap, botSessions, bots>>
             /\ events'[e].calls = <<>>
             /\ events'[e].session = 0
       /\ events[e].pc = "done" => events'[e] = events[e]

C7_RefusalChangesNothing == [][C7_Frame]_vars

\* One user was counted and admitted, the counter stands at max_users = 1,
\* and a second, unseen user was refused at the limit.
C7_Witness ==
    \E e1, e2 \in Events :
       /\ events[e1].pc = "done" /\ events[e1].counted
       /\ events[e1].outcome = "admitted"
       /\ events[e2].pc = "done" /\ events[e2].outcome = "limit"
       /\ events[e2].chat # events[e1].chat
       /\ CounterOf(events[e2].bot) = 1
       /\ sessionCache[KeyOf(events[e2])] = None
       /\ botSessions[KeyOf(events[e2])] = None

\* C8 as stated: a non-owner is treated as new (counted, or refused at the
\* limit) iff the pair was absent from the cache and from the table; a user
\* with a row and no cache entry is never refused at the limit nor counted.
C8_NewIff ==
    \A e \in Events : Decided(e) =>
       (events[e].counted \/ events[e].outcome = "limit")
          <=> (~events[e].cachedAtGate /\ ~events[e].rowAtCheck)

\* C9 as stated: a completed-payment notification that resolves to a tenant
\* whose expiration was E, once processed (answered success), has left the
\* tenant's row with expiration max(E, now) + 30 days and is_active true.
C9_Renewal ==
    \A i \in 1..Len(hooks) :
       hooks[i].resp = "success" =>
          LET E == hooks[i].tenant[1].expiration_date
              base == IF E # None /\ E[1] >= hooks[i].at THEN E[1] ELSE hooks[i].at
          IN /\ hooks[i].after[1].expiration_date = Some(base + 30 * 24 * 60 * 60)
             /\ hooks[i].after[1].is_active

\* C10: a notification whose status is none of "completed", "PAID",
\* "RECEIVED" is answered {ignored: true} in the step that receives it, that
\* step leaves the tenants table as it was, and the request does nothing
\* afterwards, for every delivery.
C10_Frame ==
    /\ \A i \in 1..Len(hooks') :
          i > Len(hooks) /\ hooks'[i].payload.status \notin {"completed", "PAID", "RECEIVED"}
             => /\ hooks'[i].resp = "ignored"
                /\ hooks'[i].pc = "done"
                /\ tenantsDb' = tenantsDb
    /\ \A i \in 1..Len(hooks) : hooks[i].pc = "done" => hooks'[i] = hooks[i]

C10_StatusFiltering == [][C10_Frame]_vars

\* The same notification, naming an existing tenant with a status that is
\* not eligible, was delivered twice and ignored twice.
C10_Witness ==
    /\ Len(hooks) = 2
    /\ hooks[1].payload = hooks[2].payload
    /\ hooks[1].payload.status = "pending"
    /\ hooks[1].payload.email = Some(1)
    /\ hooks[1].resp = "ignored" /\ hooks[2].resp = "ignored"
    /\ ~tenantsDb[1].is_active

\* C11: a notification with an eligible status from which neither the email
\* nor external_id gives a tenant id is answered 400, one whose id matches
\* no tenant row is answered 404 once its select is back, neither is ever
\* answered success, and no step of such a request changes the tenants table.
Unresolvable(h) ==
    /\ h.payload.status \in {"completed", "PAID", "RECEIVED"}
    /\ \/ h.payload.email = None /\ h.payload.external_id = None
       \/ h.payload.email # None /\ h.payload.email[1] \notin Tenants
       \/ /\ h.payload.email = None /\ h.payload.external_id # None
          /\ h.payload.external_id[1] \notin Tenants

C11_Answer ==
    \A i \in 1..Len(hooks) : Unresolvable(hooks[i]) =>
       /\ hooks[i].resp \in {"none", "400", "404"}
       /\ hooks[i].pc \in {"select", "done"}
       /\ hooks[i].pc = "done" =>
             hooks[i].resp = IF hooks[i].payload.email = None
                                /\ hooks[i].payload.external_id = None
                             THEN "400" ELSE "404"

C11_NoMutation ==
    \A i \in 1..Len(hooks') :
       Unresolvable(hooks'[i]) /\ (i > Len(hooks) \/ hooks'[i] # hooks[i])
          => tenantsDb' = tenantsDb

C12_Replay ==
    \A i, j \in 1..Len(hooks) :
       /\ j = i + 1
       /\ hooks[j].alone
       /\ hooks[i].payload = hooks[j].payload
       /\ hooks[i].resp = "success" /\ hooks[j].resp = "success"
       => LET E == hooks[i].tenant[1].expiration_date
              base == IF E # None /\ E[1] >= hooks[i].at THEN E[1] ELSE hooks[i].at
          IN hooks[j].after[1].expiration_date = Some(base + 60 * 24 * 60 * 60)

\* C13 as stated: when startTenantBot is called for a tenant that has an
\* instance registered by an earlier, completed call, then once the second
\* call has registered its instance the first instance has been stopped.
C13_Original ==
    \A b \in 1..Len(bots) :
       bots[b].prev # 0 /\ bots[b].state = "running" =>
          bots[bots[b].prev].state = "stopped"

\* The instance a start replaces belongs to the same tenant and is stopped
\* (or gone with the process) unless its stop() threw.
C13_Stopped ==
    \A b \in 1..Len(bots) :
       bots[b].prev # 0 =>
          /\ bots[bots[b].prev].obj.id = bots[b].obj.id
          /\ bots[b].prevStopOk => bots[bots[b].prev].state \in {"stopped", "dead"}

\* On registering, a restarting call puts its own instance in the registry
\* under the tenant's id, after the call it replaces has completed.
C13_Registers ==
    \A b \in 1..Len(bots) :
       bots[b].prev # 0 /\ bots[b].state = "starting" /\ bots'[b].state = "running"
          => /\ activeBots'[bots[b].obj.id] = b
             /\ bots'[bots[b].prev].state # "starting"

\* C13, amended: a second startTenantBot call for a tenant calls stop() on
\* the instance the first call registered and, once it has registered its
\* own, the registry holds one instance for the id, which is not the first;
\* the first instance is stopped if stop() did not throw (a throw is
\* swallowed and leaves it as it was).
C13_StartTwice == []C13_Stopped /\ [][C13_Registers]_vars

\* A tenant was started twice in succession: the second instance is
\* registered and running, the first is stopped.
C13_Witness ==
    \E b \in 1..Len(bots) :
       /\ bots[b].prev # 0 /\ bots[b].prevStopOk
       /\ bots[b].state = "running"
       /\ activeBots[bots[b].obj.id] = b
       /\ bots[bots[b].prev].state = "stopped"

\* C14 as stated: every tenant that loadTenants found active and called
\* startTenantBot for eventually has an instance registered in activeBots,
\* whatever happens to the start of another tenant.
C14_Isolation ==
    \A t \in Tenants :
       (\E b \in 1..Len(bots) : bots[b].obj.id = t /\ bots[b].state = "starting")
          ~> (activeBots[t] # 0)

\* C20 as stated: when the master toggle handler has completed for a tenant,
\* no instance is registered for it if the toggle made it inactive, and an
\* instance is registered for it if the toggle made it active.
C20_Synchronous ==
    \A i \in 1..Len(masterOps) :
       masterOps[i].pc = "done" /\ masterOps[i].resp \in {"blocked", "unblocked"} =>
          /\ ~masterOps[i].newState => masterOps[i].regAtEnd = 0
          /\ masterOps[i].newState => masterOps[i].regAtEnd # 0

\* The step in which the handlers of event e begin (the middleware has
\* admitted it), and the step in which its reload ends.
Begins(e) ==
    /\ events[e].pc = "pending"
    /\ events'[e].pc # "pending"
    /\ events'[e].outcome = "admitted"

ReloadEnds(e) == events[e].pc = "o_select" /\ events'[e].pc = "done"

\* What a reload must leave alone, and what it must bring about.
ReloadFrame(e) ==
    LET b == events[e].bot
    IN /\ activeBots' = activeBots
       /\ Len(bots') = Len(bots)
       /\ bots'[b].state = bots[b].state
       /\ bots'[b].obj.activeUserCount = bots[b].obj.activeUserCount

ReloadSynced(e) ==
    LET b == events[e].bot
        row == tenantsDb'[bots[b].obj.id]
    IN \A f \in DOMAIN row : bots'[b].obj[f] = row[f]

C15_OriginalStep ==
    \A e \in Events : ReloadEnds(e) => ReloadFrame(e) /\ ReloadSynced(e)

C15_ReloadStep ==
    \A e \in Events :
       ReloadEnds(e) =>
          /\ ReloadFrame(e)
          /\ events'[e].reply = "reloaded" => ReloadSynced(e)

C16_CancelStep ==
    \A e \in Events :
       Begins(e) /\ events'[e].text = CANCEL =>
          /\ heap'[events'[e].session].stage = "READY"
          /\ \A i \in 1..Len(events'[e].trans) : events'[e].trans[i] = "cancel"

\* C16 as stated: for every user and every stage, when the handlers of a
\* text equal to /cancelar run, the session's stage is set to READY and no
\* wizard transition other than the cancellation is taken for the event.
C16_Cancel == [][C16_CancelStep]_vars

\* C17 as stated: a model-selection action that arrives after the owner's
\* /cancelar reset the AI-credential flow (the cancellation has ended), and
\* finds the stage READY, writes nothing to the tenants row.
C17_Discarded ==
    \A i, j \in Events :
       /\ i < j
       /\ events[i].text = CANCEL /\ events[i].trans = <<"cancel">>
       /\ events[i].pc = "done"
       /\ events[i].stageAt = "OWNER_WAIT_OPENAI_MODEL"
       /\ events[j].kind = "set_model" /\ events[j].chat = events[i].chat
       /\ events[j].bot = events[i].bot
       /\ events[j].stageAt = "READY"
       => events[j].committed = None

\* C18 as stated: a text that is not a command, handled while the session's
\* stage is not READY, never reaches the AI logic of the last text handler.
C18_WizardOwnsInput ==
    \A e \in Events :
       /\ events[e].kind = "text"
       /\ ~StartsWith(events[e].text, "/")
       /\ events[e].stageAt \notin {"", "READY"}
       => events[e].ai = "none"

\* A text handled in the AI-key stage.
KeyStep(e) ==
    /\ Begins(e)
    /\ events'[e].kind = "text"
    /\ events'[e].stageAt = "OWNER_WAIT_OPENAI_KEY"

\* The rejection of a key: nothing changes, the reply is corrective.
Rejected(e) ==
    /\ events'[e].pc = "done"
    /\ events'[e].reply = "invalid_key"
    /\ events'[e].trans = <<>> /\ events'[e].committed = None
    /\ heap' = heap
    /\ UNCHANGED <<tenantsDb, botSessions, bots>>

Advanced(e) ==
    LET s == events'[e].session
    IN /\ heap'[s].stage = "OWNER_WAIT_OPENAI_MODEL"
       /\ heap'[s].temp_openai_key = Some(events'[e].text)

C19_OriginalStep ==
    \A e \in Events :
       KeyStep(e) /\ ~StartsWith(events'[e].text, "sk-") => Rejected(e)

\* C19 as stated: in the AI-key stage every text that does not start with
\* sk- leaves the stage, the session and the tenant as they are and is
\* answered with the corrective reply.
C19_Original == [][C19_OriginalStep]_vars

C19_ValidationStep ==
    \A e \in Events :
       KeyStep(e) /\ ~StartsWith(events'[e].text, "/") =>
          IF StartsWith(events'[e].text, "sk-") THEN Advanced(e) ELSE Rejected(e)

\* C19, amended: in the AI-key stage every text that is not a command and
\* does not start with sk- leaves the stage, the session and the tenant as
\* they are and is answered with the corrective reply, however many came
\* before it; a text that starts with sk- advances the flow to the model
\* choice with the key in the session.  A command is handled as a command,
\* /cancelar resets the stage.
C19_Validation == [][C19_ValidationStep]_vars

\* An invalid key was rejected and the valid key after it advanced the flow.
C19_Witness ==
    /\ events[1].kind = "text" /\ events[1].stageAt = "OWNER_WAIT_OPENAI_KEY"
    /\ events[1].reply = "invalid_key"
    /\ events[2].kind = "text" /\ events[2].stageAt = "OWNER_WAIT_OPENAI_KEY"
    /\ events[2].text = Text("sk-", "1")
    /\ events[2].trans = <<"OWNER_WAIT_OPENAI_KEY">>
    /\ events[2].pc = "done"
    /\ heap[events[2].session].stage = "OWNER_WAIT_OPENAI_MODEL"

\* At most one wizard transition is taken for an event.
C22_OneTransition == \A e \in Events : Len(events[e].trans) <= 1

\* A stage changes along a chain, into the first stage of a flow, or to
\* READY; and the step that writes credentials to the tenant's row is the
\* step from the flow's last stage to READY, which clears the scratch field.
C22_Step ==
    /\ \A s \in 1..Len(heap) :
          heap'[s].stage # heap[s].stage =>
             \/ heap'[s].stage \in {"READY", "OWNER_WAIT_SYNCPAY_ID",
                                    "OWNER_WAIT_OPENAI_KEY", "OWNER_WAIT_PROMPT"}
             \/ <<heap[s].stage, heap'[s].stage>> \in
                   {<<"OWNER_WAIT_SYNCPAY_ID", "OWNER_WAIT_SYNCPAY_SECRET">>,
                    <<"OWNER_WAIT_OPENAI_KEY", "OWNER_WAIT_OPENAI_MODEL">>}
    /\ \A e \in Events :
          events[e].pc = "o_update" /\ tenantsDb' # tenantsDb =>
             LET s == events[e].session
                 last == IF events[e].kind = "set_model"
                         THEN "OWNER_WAIT_OPENAI_MODEL" ELSE events[e].stageAt
             IN /\ heap[s].stage = last
                /\ heap'[s].stage = "READY"
                /\ events[e].kind = "set_model" => heap'[s].temp_openai_key = None
                /\ last = "OWNER_WAIT_SYNCPAY_SECRET" => heap'[s].temp_sync_id = None

\* C22 as stated: an owner's configuration flow takes at most one stage
\* change per event, along its chain; the tenant's row receives the
\* collected credentials only in the step that takes the flow's last stage
\* to READY, after which the flow's scratch field is cleared.
C22_Chains == []C22_OneTransition /\ [][C22_Step]_vars

C23_Step ==
    \A e \in Events :
       events[e].pc = "gs_rsp" /\ events[e].rd.err /\ events'[e] # events[e] =>
          /\ events'[e].pc = "done"
          /\ events'[e].outcome = "error"
          /\ Cur(events'[e]).got = 0
          /\ Len(events'[e].calls) = Len(events[e].calls)
          /\ UNCHANGED <<sessionCache, heap, botSessions>>

\* C23: when the select of getSession fails with an error other than "no
\* row", the call throws to the event that made it, which ends there: no
\* session object is made or returned, no second select is issued, and the
\* cache and the bot_sessions table are as they were.
C23_ReadFailure == [][C23_Step]_vars

\* An event ended with the error of its getSession's select.
C23_Witness ==
    \E e \in Events :
       /\ events[e].pc = "done" /\ events[e].outcome = "error"
       /\ Cur(events[e]).via = "db" /\ Cur(events[e]).didRead
       /\ Cur(events[e]).got = 0

\* The upsert of a saveSession call of event e fails in this step.
SaveFails(e) ==
    /\ events[e].pc \in {"h_save", "gs_upsert", "o_save"}
    /\ events'[e] # events[e]
    /\ faults' = faults + 1

\* saveSession returns to its caller, which goes on as after a save that
\* went through; the row is as it was.
C24_Swallowed ==
    \A e \in Events :
       SaveFails(e) =>
          /\ events'[e].outcome # "error"
          /\ events[e].pc = "gs_upsert" =>
                events'[e].calls[Len(events[e].calls)].got = events[e].gsObj
          /\ botSessions' = botSessions
          /\ sessionCache'[KeyOf(events[e])] # None

C24_Step ==
    /\ C24_Swallowed
    /\ \A e \in Events : SaveFails(e) => Len(events'[e].log) > Len(events[e].log)

\* C24 as stated: when the upsert of saveSession fails, saveSession returns
\* normally to its caller, the cache has an entry for the pair, the row is
\* as it was, and the failure is written to the log.
C24_WriteFailure == [][C24_Step]_vars

\* An event is handled only by an instance that has been launched, and every
\* handled event has the admission middleware's decision.
C25_Gated ==
    \A e \in Events :
       events[e].pc # "pending" =>
          /\ bots[events[e].bot].state # "starting"
          /\ events[e].pc = "done" =>
                events[e].outcome \in {"expired", "limit", "admitted", "error"}

\* The step that launches an instance has set its counter to the number of
\* the tenant's rows in bot_sessions.
C25_CounterStep ==
    \A b \in 1..Len(bots) :
       bots[b].state = "starting" /\ bots'[b].state = "running" =>
          bots'[b].obj.activeUserCount =
             Cardinality({k \in Keys : k[1] = bots[b].obj.id /\ botSessions[k] # None})

\* C25 as stated: startTenantBot sets the in-memory user counter to the
\* number of durable session rows of the tenant and installs the admission
\* middleware and the handlers before it launches the instance, so that no
\* event is handled by an instance without the gate.
C25_StartOrdering == []C25_Gated /\ [][C25_CounterStep]_vars

C26_Step ==
    \A i \in 1..Len(hooks) :
       hooks[i].pc = "update" /\ hooks'[i].pc = "done" =>
          LET id == hooks[i].tenantId[1]
          IN /\ hooks'[i].resp = "success"
             /\ hooks'[i].notified <=> activeBots[id] # 0
             /\ hooks'[i].notifyErr =>
                   /\ hooks'[i].notified
                   /\ \/ tenantsDb' = tenantsDb
                      \/ tenantsDb'[id].expiration_date = Some(hooks[i].newExpiration)
                   /\ \A t \in Tenants \ {id} : tenantsDb'[t] = tenantsDb[t]

GatewayFailed(ev) == ev.wa \in RawResponses \ {"created"}

\* The step on which the create request of an event comes back failed: the
\* session object keeps its instances and is set to READY, the cache entry
\* of the pair is that object, and the handler goes on to save and answer
\* with the failure.
C30_FailStep ==
    \A e \in Events :
       events[e].pc = "wa_create" /\ GatewayFailed(events'[e]) =>
          LET s == events[e].session
          IN /\ heap'[s].instances = heap[s].instances
             /\ heap'[s].whatsapp = heap[s].whatsapp
             /\ heap'[s].stage = "READY"
             /\ events'[e].pc = "o_save"
             /\ events'[e].reply = "wa_failed"
             /\ events'[e].wr = heap'[s]
             /\ sessionCache'[KeyOf(events[e])] # None
             /\ sessionCache'[KeyOf(events[e])][1].data = s
             /\ UNCHANGED <<bots, activeBots, botSessions>>

\* The save of such an event writes the pair's row or leaves it, and ends
\* the event.
C30_SaveStep ==
    \A e \in Events :
       events[e].pc = "o_save" /\ GatewayFailed(events[e]) /\ events'[e] # events[e] =>
          /\ events'[e].pc = "done"
          /\ events'[e].reply = "wa_failed"
          /\ \/ botSessions' = botSessions
             \/ botSessions' = [botSessions EXCEPT ![KeyOf(events[e])] = Some(events[e].wr)]
          /\ UNCHANGED <<activeBots, heap, sessionCache>>

\* An event whose create request failed never leaves the handler by an
\* error, and its instance is registered and running all along.
C30_Running ==
    \A e \in Events :
       GatewayFailed(events[e]) =>
          /\ events[e].outcome # "error"
          /\ events[e].pc \in {"o_save", "done"}
          /\ activeBots[bots[events[e].bot].obj.id] = events[e].bot
          /\ bots[events[e].bot].state = "running"

\* C30: when the gateway reports failure, answers with something that is
\* not JSON or cannot be reached while an instance is created in
\* WA_WAITING_NAME, the event ends with the failure reply, the session's
\* instance list is as before, the stage is READY again and the tenant's
\* instance keeps running.
C30_GatewayFailure ==
    /\ []C30_Running
    /\ [][C30_FailStep /\ C30_SaveStep]_vars

\* An event finished after a gateway answer that was not JSON, with the
\* failure reply and its session READY in the cache and in the row.
C30_Witness ==
    \E e \in Events :
       /\ events[e].pc = "done" /\ events[e].wa = "non_json"
       /\ events[e].reply = "wa_failed"
       /\ events[e].stageAt = "WA_WAITING_NAME"
       /\ heap[events[e].session].stage = "READY"
       /\ botSessions[KeyOf(events[e])] # None
       /\ botSessions[KeyOf(events[e])][1].stage = "READY"

\* Two finished owner_setup_* events of the owner that both loaded the
\* session by a select on bot_sessions, with no durable operation failed.
SetupKinds == {"owner_setup_syncpay", "owner_setup_ai", "owner_setup_prompt"}
Raced(e1, e2) ==
    /\ e1 # e2
    /\ events[e1].pc = "done" /\ events[e2].pc = "done"
    /\ KeyOf(events[e1]) = KeyOf(events[e2])
    /\ events[e1].kind \in SetupKinds /\ events[e2].kind \in SetupKinds
    /\ events[e1].reply = "prompt" /\ events[e2].reply = "prompt"
    /\ events[e1].calls[1].didRead /\ events[e2].calls[1].didRead
    /\ faults = 0

\* Each of the two worked on its own session object.
C28_OwnCopies ==
    \A e1, e2 \in Events :
       Raced(e1, e2) => events[e1].session # events[e2].session

\* The row holds what one of the two wrote, and nothing of the other.
C28_RowOfOne ==
    \A e1, e2 \in Events :
       Raced(e1, e2) =>
          \E l \in {e1, e2} :
             botSessions[KeyOf(events[l])] = Some(heap[events[l].session])

\* C28: when two events of one pair both loaded the session by a durable
\* read and both have saved, each worked on its own copy, and the cache
\* entry and the row of the pair both hold the state of the same, later,
\* save; the other event's change is in neither.
C28_LostUpdate ==
    \A e1, e2 \in Events :
       Raced(e1, e2) =>
          /\ events[e1].session # events[e2].session
          /\ \E l \in {e1, e2} :
                LET k == KeyOf(events[l])
                IN /\ sessionCache[k] # None
                   /\ sessionCache[k][1].data = events[l].session
                   /\ botSessions[k] = Some(heap[events[l].session])

\* A step of an event of pair (t1,u1) leaves the cache entry, the session
\* object and the row of every other pair, and the tenant object (with its
\* counter) of every other tenant, as they were.
C29_Step ==
    \A e \in Events :
       events'[e] # events[e] =>
          LET b == events'[e].bot
              t1 == bots[b].obj.id
              u1 == events'[e].chat
          IN /\ \A k \in Keys \ {<<t1, u1>>} :
                   /\ sessionCache'[k] = sessionCache[k]
                   /\ botSessions'[k] = botSessions[k]
                   /\ sessionCache[k] # None =>
                         heap'[sessionCache[k][1].data] = heap[sessionCache[k][1].data]
             /\ \A b2 \in 1..Len(bots) :
                   bots[b2].obj.id # t1 => bots'[b2] = bots[b2]

\* C29: for distinct pairs, no getSession, saveSession or gate decision on
\* (t1,u1) changes the cache entry, the row or the user counter of (t2,u2),
\* nor the counter of a tenant t2 other than t1.
C29_Isolation == [][C29_Step]_vars

\* The same chat was counted, cached and saved as a user of both tenants.
C29_Witness ==
    /\ events[1].pc = "done" /\ events[2].pc = "done"
    /\ events[1].chat = events[2].chat
    /\ events[1].bot # events[2].bot
    /\ events[1].counted /\ events[2].counted
    /\ \A e \in Events :
          /\ sessionCache[KeyOf(events[e])] # None
          /\ botSessions[KeyOf(events[e])] # None
          /\ heap[events[e].session].stage = "WA_WAITING_NAME"

\* Chat c is the configured operator.
Operator(c) ==
    MASTER_ADMIN_ID # None /\ MASTER_ADMIN_ID[1] = JsStr(c)

\* What the master bot controls: the wizard sessions, the tenants table, the
\* global price, the instances and their registry.
Controlled == <<masterSessions, tenantsDb, systemConfig, bots, activeBots>>

\* The update of the master bot that a step delivers or carries on.
Acts(i) == i > Len(masterEvents) \/ masterEvents'[i] # masterEvents[i]

\* A step of an update from a chat that is not the operator changes nothing
\* the master bot controls.
C21_EventStep ==
    \A i \in 1..Len(masterEvents') :
       Acts(i) /\ ~Operator(masterEvents'[i].chat) => UNCHANGED Controlled

\* Only the operator has a wizard session; an update of another chat is
\* over once the middleware or the text handler returned; and with no
\* operator configured nothing the master bot controls ever differs from
\* what the process started with.
C21_Origin ==
    /\ \A c \in Users : masterSessions[c] # None => Operator(c)
    /\ \A i \in 1..Len(masterEvents) :
          ~Operator(masterEvents[i].chat) =>
             /\ masterEvents[i].pc = "done"
             /\ masterEvents[i].row = 0
             /\ masterEvents[i].reply \in {"", "unconfigured"}
             /\ masterEvents[i].gate = "next" => masterEvents[i].text = MEU_ID
    /\ MASTER_ADMIN_ID = None =>
          /\ DOMAIN tenantsDb = Tenants
          /\ systemConfig = None
          /\ Len(bots) = 1 /\ bots[1].state = "running"
          /\ \A t \in TenantIds : activeBots[t] = IF t = 1 THEN 1 ELSE 0

\* C21: no update from a chat other than the configured operator creates
\* or changes a master wizard session, a tenant row, the global price, an
\* instance or the instance registry; with no operator configured no
\* update does.
C21_Gating == []C21_Origin /\ [][C21_EventStep]_vars

\* While the operator is in the middle of a wizard, a stranger pressed the
\* new-tenant button and was dropped, and sent /meu_id, which went past the
\* middleware and ended in the text handler.
C21_Witness ==
    /\ Operator(1)
    /\ masterSessions[1] # None
    /\ \E i, j \in 1..Len(masterEvents) :
          /\ masterEvents[i].chat = 2 /\ masterEvents[i].kind = "new_tenant_start"
          /\ masterEvents[i].gate = "denied"
          /\ masterEvents[j].chat = 2 /\ masterEvents[j].text = MEU_ID
          /\ masterEvents[j].gate = "next"

\* The session of chat c has stage st.
StageIs(S, c, st) == S[c] # None /\ S[c][1].stage = st

\* A text the wizard takes as input comes to the text handler with the
\* chat's session in a stage of the new-tenant wizard: WAIT_NAME keeps the
\* text as the name and asks for the credential; WAIT_TOKEN keeps stage and
\* data when the text has no ":", and else keeps the text as the credential
\* and asks for the owner; WAIT_OWNER_ID keeps the text as the owner and
\* issues the insert.  None of these steps touches the table or starts an
\* instance.
C27_TextStep ==
    \A i \in 1..Len(masterEvents') :
       LET ev == masterEvents'[i]
           c == ev.chat
           old == masterSessions[c][1]
           new == masterSessions'[c][1]
       IN /\ i > Len(masterEvents)
          /\ ev.gate = "next" /\ ev.kind = "text"
          /\ ev.text \notin {START_CMD, CANCELAR}
          /\ masterSessions[c] # None
          /\ old.stage \in {"WAIT_NAME", "WAIT_TOKEN", "WAIT_OWNER_ID"}
          => /\ UNCHANGED <<tenantsDb, bots, activeBots>>
             /\ masterSessions'[c] # None
             /\ old.stage = "WAIT_NAME" =>
                   /\ new.stage = "WAIT_TOKEN"
                   /\ new.data = [old.data EXCEPT !.name = Some(ev.text)]
                   /\ ev.pc = "done"
             /\ old.stage = "WAIT_TOKEN" /\ (\A k \in 1..Len(ev.text) : ev.text[k] # ":") =>
                   /\ new = old
                   /\ ev.reply = "invalid_token" /\ ev.pc = "done"
             /\ old.stage = "WAIT_TOKEN" /\ (\E k \in 1..Len(ev.text) : ev.text[k] = ":") =>
                   /\ new.stage = "WAIT_OWNER_ID"
                   /\ new.data = [old.data EXCEPT !.telegram_token = Some(ev.text)]
                   /\ ev.pc = "done"
             /\ old.stage = "WAIT_OWNER_ID" =>
                   /\ new.stage = "WAIT_OWNER_ID"
                   /\ new.data = [old.data EXCEPT !.owner_chat_id = Some(ev.text)]
                   /\ ev.pc = "insert" /\ ev.values = Some(new.data)

\* The insert comes back.  On an error no row appears, no instance is
\* started and the chat's session is gone; else the row carries the three
\* values, one instance is started for it and the session is gone.  No
\* other step adds a row.
C27_InsertStep ==
    /\ \A i \in 1..Len(masterEvents) :
          masterEvents[i].pc = "insert" /\ masterEvents'[i].pc = "done" =>
             LET ev == masterEvents'[i]
                 v == ev.values[1]
             IN /\ masterSessions'[ev.chat] = None
                /\ ev.reply = "error" =>
                      /\ ev.row = 0
                      /\ UNCHANGED <<tenantsDb, bots, activeBots>>
                /\ ev.reply # "error" =>
                      /\ ev.row \notin DOMAIN tenantsDb
                      /\ DOMAIN tenantsDb' = DOMAIN tenantsDb \cup {ev.row}
                      /\ tenantsDb'[ev.row].name = v.name[1]
                      /\ tenantsDb'[ev.row].telegram_token = v.telegram_token[1]
                      /\ tenantsDb'[ev.row].owner_chat_id = JsText(v.owner_chat_id[1])
                      /\ Len(bots') = Len(bots) + 1
                      /\ bots'[Len(bots')].obj.id = ev.row
                      /\ bots'[Len(bots')].state = "starting"
    /\ DOMAIN tenantsDb' # DOMAIN tenantsDb =>
          \E i \in 1..Len(masterEvents) :
             masterEvents[i].pc = "insert" /\ masterEvents'[i].pc = "done"

\* A session past WAIT_NAME has the name, one past WAIT_TOKEN a credential
\* with the separator too, and an insert carries all three values.
C27_Collected ==
    /\ \A c \in Users :
          /\ StageIs(masterSessions, c, "WAIT_TOKEN") =>
                masterSessions[c][1].data.name # None
          /\ StageIs(masterSessions, c, "WAIT_OWNER_ID") =>
                /\ masterSessions[c][1].data.name # None
                /\ masterSessions[c][1].data.telegram_token # None
                /\ \E k \in 1..Len(masterSessions[c][1].data.telegram_token[1]) :
                      masterSessions[c][1].data.telegram_token[1][k] = ":"
    /\ \A i \in 1..Len(masterEvents) :
          masterEvents[i].values # None =>
             /\ masterEvents[i].stageAt = "WAIT_OWNER_ID"
             /\ masterEvents[i].values[1].name # None
             /\ masterEvents[i].values[1].telegram_token # None
             /\ masterEvents[i].values[1].owner_chat_id # None
             /\ \E k \in 1..Len(masterEvents[i].values[1].telegram_token[1]) :
                   masterEvents[i].values[1].telegram_token[1][k] = ":"

\* C27: the new-tenant wizard collects the name, then the bot credential,
\* then the owner's id; a credential without the separator keeps the stage;
\* the row is inserted and startTenantBot called only once all three are
\* there, and a failed insert starts no instance and discards the session.
C27_TenantCreation ==
    /\ []C27_Collected
    /\ [][C27_TextStep /\ C27_InsertStep]_vars

\* A credential without the separator was refused, a valid one and the
\* owner's id followed, and the tenant inserted is registered and running.
C27_Witness ==
    \E i, j \in 1..Len(masterEvents) :
       /\ i < j
       /\ masterEvents[i].reply = "invalid_token"
       /\ masterEvents[j].reply = "created"
       /\ masterEvents[j].row \in DOMAIN tenantsDb
       /\ activeBots[masterEvents[j].row] # 0
       /\ bots[activeBots[masterEvents[j].row]].state = "running"
       /\ masterSessions[masterEvents[j].chat] = None

\* Request i renewed tenant t: it was answered success, the row it left has
\* the expiration it computed, and the expiration it found was in the past.
Renewed(i, t) ==
    /\ hooks[i].pc = "done" /\ hooks[i].resp = "success"
    /\ hooks[i].tenantId = Some(t)
    /\ hooks[i].after[1].expiration_date = Some(hooks[i].newExpiration)
    /\ hooks[i].tenant[1].expiration_date # None
    /\ hooks[i].tenant[1].expiration_date[1] < hooks[i].at

\* An update of a non-owner that arrives at the running instance of a
\* tenant after a renewal of that tenant is not refused as plan-expired.
C31_Step ==
    \A e \in Events :
       /\ events[e].pc = "pending" /\ events'[e].pc # "pending"
       /\ \E i \in 1..Len(hooks) : Renewed(i, bots[events'[e].bot].obj.id)
       => events'[e].outcome # "expired"

\* C31: once a completed payment of a tenant whose instance runs on a past
\* expiration has been processed, no later event of a non-owner to that
\* instance is refused as plan-expired.
C31_RenewalReachesGate == [][C31_Step]_vars

\* The process has loaded its tenants, and a request that found tenant 1
\* inactive and without an instance has set is_active and was answered
\* success.
Reactivated ==
    /\ loaded
    /\ \E i \in 1..Len(hooks) :
          /\ hooks[i].pc = "done" /\ hooks[i].resp = "success"
          /\ hooks[i].tenantId = Some(1)
          /\ ~hooks[i].tenant[1].is_active
          /\ hooks[i].after[1].is_active
    /\ tenantsDb[1].is_active

\* C32: after a payment has set is_active for a tenant that was inactive
\* and had no instance, an instance of the tenant is eventually registered
\* in activeBots, the process not being restarted.
C32_ReactivationStarts == Reactivated ~> activeBots[1] # 0

\* C33: every instance that was launched and not stopped is the one
\* registered in activeBots for its tenant id, whatever the interleaving
\* of the startTenantBot calls for that id.
C33_OneLiveInstance ==
    \A b \in 1..Len(bots) :
       bots[b].state = "running" => activeBots[bots[b].obj.id] = b

\* C34: once the handler that toggles a tenant inactive has completed, and
\* for as long as the tenant stays inactive, no instance of the tenant is
\* registered or running, even if a start for it was in flight when the
\* toggle ran.
C34_NoInstanceWhenBlocked ==
    \A i \in 1..Len(masterOps) :
       /\ masterOps[i].pc = "done" /\ masterOps[i].resp = "blocked"
       /\ ~tenantsDb[masterOps[i].id].is_active
       => /\ activeBots[masterOps[i].id] = 0
          /\ \A b \in 1..Len(bots) :
                bots[b].obj.id = masterOps[i].id => bots[b].state # "running"

\* C35: when two completed-payment notifications for the same tenant are
\* processed concurrently (the second received before the first was
\* answered) and both are answered success, each having had its update
\* applied, the tenant's row ends with expiration max(E, now) + 60 days, E
\* being the expiration before either.
C35_ConcurrentRenewals ==
    \A i, j \in 1..Len(hooks) :
       /\ i < j
       /\ ~hooks[j].alone
       /\ hooks[i].tenantId = hooks[j].tenantId
       /\ hooks[i].pc = "done" /\ hooks[j].pc = "done"
       /\ hooks[i].resp = "success" /\ hooks[j].resp = "success"
       /\ hooks[i].after[1].expiration_date = Some(hooks[i].newExpiration)
       /\ hooks[j].after[1].expiration_date = Some(hooks[j].newExpiration)
       => LET E == hooks[i].tenant[1].expiration_date
              base == IF E # None /\ E[1] >= hooks[i].at THEN E[1] ELSE hooks[i].at
          IN tenantsDb[hooks[i].tenantId[1]].expiration_date
                = Some(base + 60 * 24 * 60 * 60)

\* C36: a request answered success has persisted the renewal: when it is
\* answered the tenant's row holds the returned new_expiration and is_active
\* true; a request whose update failed is not answered success.
C36_SuccessPersisted ==
    \A i \in 1..Len(hooks) :
       hooks[i].pc = "done" /\ hooks[i].resp = "success" =>
          /\ hooks[i].after[1].expiration_date = Some(hooks[i].newExpiration)
          /\ hooks[i].after[1].is_active

\* The users an instance has counted as new.
CountedUsers(b) ==
    {u \in Users : \E e \in Events : /\ events[e].bot = b
                                      /\ events[e].counted
                                      /\ events[e].chat = u}

\* C37: the live counter of a running instance equals the count loaded at
\* its start plus the number of distinct non-owner users it has admitted as
\* new; no user is counted twice.
C37_CountsOnce ==
    \A b \in 1..Len(bots) :
       bots[b].state = "running" =>
          CounterOf(b) = bots[b].startCount + Cardinality(CountedUsers(b))

\* C38: at rest, when no event is inside getSession or saveSession and no
\* durable operation has failed, every unexpired cache entry holds the
\* session that the pair's bot_sessions row holds.
C38_CoherentAtRest ==
    /\ \A e \in Events : ~InFlight(events[e])
    /\ faults = 0
    => \A k \in Keys :
          CacheFresh(sessionCache, k, now) =>
             botSessions[k] = Some(heap[sessionCache[k][1].data])

\* The columns and the stages that belong to the owner's wizards.
ConfigFields == DOMAIN NoConfig
OwnerStages ==
    {"OWNER_WAIT_SYNCPAY_ID", "OWNER_WAIT_SYNCPAY_SECRET",
     "OWNER_WAIT_OPENAI_KEY", "OWNER_WAIT_OPENAI_MODEL", "OWNER_WAIT_PROMPT"}

\* C39: no step of an event that comes from a chat other than the tenant's
\* owner, the set_model actions included, changes a credential, the AI key,
\* the model or the system prompt in the tenants table or in a tenant
\* object, or puts a session or a bot_sessions row into an owner wizard
\* stage.
C39_Step ==
    \A e \in Events :
       /\ events'[e] # events[e]
       /\ bots[events'[e].bot].obj.owner_chat_id # JsStr(events'[e].chat)
       => /\ \A t \in Tenants : \A f \in ConfigFields :
                tenantsDb'[t][f] = tenantsDb[t][f]
          /\ Len(bots') = Len(bots)
          /\ \A b \in 1..Len(bots) : \A f \in ConfigFields :
                bots'[b].obj[f] = bots[b].obj[f]
          /\ \A s \in 1..Len(heap') :
                heap'[s].stage \in OwnerStages =>
                   s <= Len(heap) /\ heap[s].stage = heap'[s].stage
          /\ \A k \in Keys :
                botSessions'[k] # None /\ botSessions'[k][1].stage \in OwnerStages
                   => botSessions'[k] = botSessions[k]

C39_OwnerOnly == [][C39_Step]_vars

\* A chat that is not the owner has had a set_model action and an
\* owner_setup_ai action handled to the end.
C39_Witness ==
    \E e1, e2 \in Events :
       /\ events[e1].pc = "done" /\ events[e2].pc = "done"
       /\ events[e1].chat = 2 /\ events[e2].chat = 2
       /\ bots[events[e1].bot].obj.owner_chat_id = JsStr(1)
       /\ events[e1].kind = "set_model"
       /\ events[e2].kind = "owner_setup_ai"

\* C40: for every limit L stored as max_users, 0 included, the gate refuses
\* a user it takes as new exactly when the tenant's counter has reached L;
\* the default of 10 stands in only when max_users is not set.
C40_Step ==
    \A e \in Events :
       /\ events[e].pc = "exists"
       /\ events'[e].outcome = "limit" \/ events'[e].counted
       => LET tenant == bots[events[e].bot].obj
              L == IF tenant.max_users = None THEN 10 ELSE tenant.max_users[1]
          IN events'[e].outcome = "limit" <=> CounterOf(events[e].bot) >= L

C40_ConfiguredLimit == [][C40_Step]_vars

====
